---- MODULE Spec2Model ----
(***************************************************************************)
(* Model of the ssh-terminal backend core: the channel-to-stream bridge    *)
(* (ssh/backends/sftp_channel.rs), the session/connection registry         *)
(* (commands/session.rs, commands/terminal.rs, ssh/connection.rs) and the  *)
(* SFTP transfer commands (commands/sftp.rs, sftp/client.rs).              *)
(*                                                                         *)
(* Each subsystem has its own specification (SpecBridge, ...); the         *)
(* variables of the other subsystems stay at their initial value there.    *)
(***************************************************************************)
EXTENDS Integers, Sequences, FiniteSets, TLC

VARIABLES
    \* ---- channel-stream bridge (sftp_channel.rs) ----
    chan_in,      \* messages the channel holds for read_half.wait(), oldest first
    chan_closed,  \* the remote side closed the channel (Close sent or channel ended)
    frames,       \* history: the Data frames the channel delivered, in arrival order
    inPump,       \* inbound pump task: "running" | "done" (data_tx lives while running)
    data_q,       \* the inbound mpsc queue (data_tx -> receiver): a sequence of Vec<u8>
    stream,       \* the SftpChannelStream value: "open" | "dropped"
    read_buffer,  \* Option<Vec<u8>>: << >> is None, <<v>> is Some(v)
    read_pos,     \* usize
    delivered,    \* history: bytes the reads have put into the callers' buffers
    lastRead,     \* outcome of the latest poll_read
    rseq,         \* number of poll_read calls so far
    write_q,      \* the outbound mpsc queue (sender -> write_rx)
    outPump,      \* outbound pump task: "running" | "done" (write_rx lives while running)
    written,      \* history: buffers poll_write reported as written
    forwarded,    \* history: buffers the outbound pump wrote to the channel
    lastWrite,    \* outcome of the latest poll_write
    wseq,         \* number of poll_write calls so far
    \* ---- session/connection registry (commands/session.rs, ssh/connection.rs) ----
    sessions,     \* ids of the session configs the manager holds in memory
    storage,      \* ids of the session configs in session storage (the database)
    instances,    \* every ConnectionInstance created so far; its index is its id
    connections,  \* the registry: ids of the instances the manager holds
    callers,      \* the session_connect calls in progress, one record per caller
    liveExpected, \* history: per session id, connect returned Ok and no disconnect since
    backendLog,   \* history: what was forwarded to backends, in order
    lastTerm,     \* outcome of ssh_write / ssh_resize_pty if it is the latest operation
    lastSftp,     \* outcome of create_sftp_client if it is the latest operation
    opSeq,        \* number of write / resize / create_sftp_client calls so far
    \* ---- SFTP transfer commands (commands/sftp.rs, sftp/client.rs) ----
    tpc,          \* per task: where its upload/download command stands
    task,         \* per task: [kind, total]: the command and the size of the source file
    tokens,       \* the registry of cancellation tokens: task ids that have one
    cancelled,    \* task ids whose registered token is set
    taskClients,  \* task ids that have a task SFTP client registered
    record,       \* per task: status column of its transfer record ("none": no row)
    transferred,  \* per task: bytes copied so far by the streaming copy
    progress,     \* per task, history: the values passed to the progress callback
    shortReads,   \* per task: reads so far that returned less than a full buffer
    cancelAt,     \* per task, history: progress made when the token was set, or NotYet
    xferResult,   \* per task: what the streaming copy returned
    cmdResult,    \* per task: what the command returned
    cancelResult, \* per task id: what the last cancel command for it returned
    destBytes,    \* per task: bytes in the destination file; None before it is created
    \* ---- The locks of one connection (ssh/connection.rs, commands/sftp.rs) ----
    procs,        \* per process: where its command stands
    backend_guard,\* who holds the mutex around the connection's backend handle, or None
    sftp_guard,   \* per SFTP session (shared, task): who holds its mutex, or None
    sharedCached, \* whether the connection's interactive SFTP session exists
    bulkBlocked,  \* whether the transfer's channel has stopped for good
    served,       \* history: the commands that returned while the transfer was blocked
    \* ---- Registry commands and their sequential orders ----
    callLog,      \* history: the registry commands that have returned, with their answers
    consulted,    \* per caller: what storage answered its session_connect, if asked
    \* ---- Interactive SFTP operations (sftp/client.rs, commands/sftp.rs) ----
    ibackend,     \* per connection: the backend its instance holds, "None" when closed
    sftpClients,  \* the manager's cache: pairs <<connection, SFTP session>>
    nextHandle,   \* number of SFTP sessions created so far
    iop,          \* the interactive operation in progress
    lastOp,       \* history: the latest interactive operation that returned
    \* ---- The single-file copy of SftpClient (sftp/client.rs) ----
    cpc,          \* where upload_file / download_file stands
    csource,      \* [kind, size]: which of the two, and the size of the source file
    file_size,    \* the total the copy read from the source's metadata
    ctransferred, \* the copy's byte count
    cwritten,     \* history: the lengths of the chunks written to the destination
    creports,     \* history: the pairs passed to progress_callback
    cdest,        \* bytes in the destination file; None before it is created
    cshort,       \* reads so far that returned less than a full buffer
    cresult,      \* what the copy returned
    \* ---- Directory transfers (commands/sftp.rs) ----
    dpc,          \* where the directory command stands
    dtask,        \* [kind, tree]: upload or download, and the source tree
    dtoken,       \* the task's cancellation token: "none" | "registered" | "set"
    dclient,      \* whether the task's SFTP client is registered
    todo,         \* the entries the walk has still to visit, next first
    dlog,         \* history: the calls on the destination, <<"mkdir", n>> / <<"copy", n>>
    dmade,        \* the directories that exist on the destination (0 is the root)
    dcopied,      \* history: the files whose copy returned Ok, in order
    stats,        \* the engine's statistics: total_files, total_dirs, total_size
    engineResult, \* what the engine returned: [kind, stats]
    dcmdResult,   \* what the command returned: [kind, stats]
    drecord,      \* the task's transfer record: [status, stats]
    cancelMark,   \* history: what the engine had done when the token was set
    \* ---- chmod on a remote path (sftp/client.rs) ----
    rattrs,       \* the server's attributes of the path: [permissions, size]
    chpc,         \* where SftpClient::chmod stands: "idle" | "metadata" | "set"
    chmode,       \* the mode chmod was called with
    chmeta,       \* the Metadata value chmod holds between its two calls
    chresult,     \* what the latest chmod returned
    lastChmod,    \* history: the latest chmod that returned Ok, None once the
                  \* path's permissions were changed by someone else
    lastStat,     \* the latest stat of the path: what it reported, and lastChmod then
    chseq,        \* number of chmod calls and changes by others so far
    \* ---- CryptoService (services/crypto_service.rs) ----
    crpc,         \* "idle" | "encrypted" | "decrypted": one encryption and its decryption
    crin,         \* the latest encryption's input: [kind, value, secret]
    crenc,        \* what the latest encryption returned
    crwith,       \* the secret the latest decryption was given
    crout,        \* what the latest decryption returned
    \* ---- mail rate limit (ssh-terminal-server: infra/mail/rate_limit.rs) ----
    rkey,         \* the user's limit key in Redis: [count, ttl]; count 0 is no key
    rcall,        \* per request handler: where its check_rate_limit stands
    rcount,       \* per request handler: the count it read
    rresult,      \* per request handler: what its latest check_rate_limit returned
    rcalls,       \* per request handler: the calls it has made
    rgrants,      \* history: calls that returned true while the present key exists
    \* ---- stored accounts (database/repositories/user_auth_repository.rs) ----
    astored,      \* the user ids that have a row in user_auth
    amarked,      \* the user ids whose row has is_current = 1
    apc,          \* per caller: where its operation stands
    ausr,         \* per caller: the user id its operation is about
    acalls,       \* per caller: the operations it has started
    \* ---- mail queue and workers (ssh-terminal-server: infra/mail) ----
    mqueue,       \* the Redis list auth:mail:queue, head first: tasks [id, retry]
    mdead,        \* the Redis list auth:mail:dead_letter, head first
    mpushed,      \* the mails send_verify_code has enqueued
    wpc,          \* per worker: where its loop stands
    wtask,        \* per worker: the task it popped (None when it holds none)
    mattempts,    \* history, per mail: the mailer.send calls made for it
    mfailures,    \* history, per mail: the mailer.send calls that failed
    mdropped,     \* history, per mail: processing ended by an error before a push
    \* ---- API client (src-tauri/src/services/api_client.rs) ----
    access_token,     \* ApiClient.access_token: 0 is None, n > 0 the n-th token issued
    refresh_token,    \* ApiClient.refresh_token_encrypted is Some
    issued,           \* the server: the number of the access token it issued last
    qpc,              \* per caller: where its get_auth stands
    qstage,           \* per caller: 1 for the first send of the call, 2 for the re-send
    qsent,            \* per caller: the tokens of the sends of its current call, in order
    q401,             \* per caller: the 401 answers its current call received
    qnew,             \* per caller: the token its refresh request was answered with
    qresult,          \* per caller: what its latest get_auth returned
    qcalls            \* per caller: the get_auth calls it has made

bridgeVars == <<chan_in, chan_closed, frames, inPump, data_q, stream, read_buffer,
                read_pos, delivered, lastRead, rseq, write_q, outPump, written,
                forwarded, lastWrite, wseq>>

sessionVars == <<sessions, storage, instances, connections, callers, liveExpected,
                 backendLog, lastTerm, lastSftp, opSeq>>

transferVars == <<tpc, task, tokens, cancelled, taskClients, record, transferred,
                  progress, shortReads, cancelAt, xferResult, cmdResult, cancelResult,
                  destBytes>>

lockVars == <<procs, backend_guard, sftp_guard, sharedCached, bulkBlocked, served>>

serialVars == <<callLog, consulted>>

interactiveVars == <<ibackend, sftpClients, nextHandle, iop, lastOp>>

\* The subsystems added after the registry and the single-file transfer.
copyVars == <<cpc, csource, file_size, ctransferred, cwritten, creports, cdest, cshort,
              cresult>>

directoryVars == <<dpc, dtask, dtoken, dclient, todo, dlog, dmade, dcopied, stats,
                   engineResult, dcmdResult, drecord, cancelMark>>

\* The services beside the terminal core: each has its own specification.
chmodVars == <<rattrs, chpc, chmode, chmeta, chresult, lastChmod, lastStat, chseq>>

cryptoVars == <<crpc, crin, crenc, crwith, crout>>

rateVars == <<rkey, rcall, rcount, rresult, rcalls, rgrants>>

authVars == <<astored, amarked, apc, ausr, acalls>>

mailVars == <<mqueue, mdead, mpushed, wpc, wtask, mattempts, mfailures, mdropped>>

apiVars == <<access_token, refresh_token, issued, qpc, qstage, qsent, q401, qnew, qresult, qcalls>>

serviceVars == <<chmodVars, cryptoVars, rateVars, authVars, mailVars, apiVars>>

engineVars == <<interactiveVars, copyVars, directoryVars, serviceVars>>

vars == <<bridgeVars, sessionVars, transferVars, lockVars, serialVars, engineVars>>

otherThanBridge == <<sessionVars, transferVars, lockVars, serialVars, engineVars>>
otherThanSession == <<bridgeVars, transferVars, lockVars, engineVars>>
otherThanTransfer == <<bridgeVars, sessionVars, lockVars, serialVars, engineVars>>
otherThanLocks == <<bridgeVars, sessionVars, transferVars, serialVars, engineVars>>
otherThanEngines == <<bridgeVars, sessionVars, transferVars, lockVars, serialVars, serviceVars>>
coreVars == <<bridgeVars, sessionVars, transferVars, lockVars, serialVars, interactiveVars,
              copyVars, directoryVars>>
otherThanInteractive == <<otherThanEngines, copyVars, directoryVars>>
otherThanCopy == <<otherThanEngines, interactiveVars, directoryVars>>
otherThanDirectory == <<otherThanEngines, interactiveVars, copyVars>>
otherThanSvc_chmod == <<coreVars, cryptoVars, rateVars, authVars, mailVars, apiVars>>
otherThanSvc_crypto == <<coreVars, chmodVars, rateVars, authVars, mailVars, apiVars>>
otherThanSvc_rate == <<coreVars, chmodVars, cryptoVars, authVars, mailVars, apiVars>>
otherThanSvc_auth == <<coreVars, chmodVars, cryptoVars, rateVars, mailVars, apiVars>>
otherThanSvc_mail == <<coreVars, chmodVars, cryptoVars, rateVars, authVars, apiVars>>
otherThanSvc_api == <<coreVars, chmodVars, cryptoVars, rateVars, authVars, mailVars>>

----------------------------------------------------------------------------
\* Bounds of the model.

\* Data frames the channel delivers in one run.
MaxFrames == 2
\* Longest Data frame, in bytes.
MaxFrameLen == 2
\* Largest ReadBuf capacity a reader passes.
MaxCap == 2
\* poll_write calls in one run.
MaxWrites == 2
\* Longest buffer passed to poll_write.
MaxWriteLen == 1
\* poll_read calls in one run.
MaxReads == 4
\* Messages a channel may hold undelivered.
MaxPending == 2
\* ConnectionInstances created in one run.
MaxConnects == 2
\* write / resize / create_sftp_client calls in one run.
MaxOps == 1
\* Registry commands in one run that is compared with its sequential orders.
MaxCalls == 3
\* Full buffers in the largest source file.
MaxChunks == 2
\* Reads of one transfer that return less than a full buffer before end of input.
MaxShortReads == 1
\* Interactive SFTP operations in one run.
MaxInteractiveOps == 3
\* SFTP sessions created for interactive operations in one run.
MaxSftpSessions == 2
\* Files and directories under the root of a source tree.
MaxNodes == 3
\* chmod calls and changes by other users of the server.
MaxChmods == 3
\* check_rate_limit calls of one request handler.
MaxRateCalls == 2
\* Account operations (login, switch, logout) of one caller.
MaxAuthCalls == 2
\* Authenticated requests of one caller.
MaxApiCalls == 2

----------------------------------------------------------------------------
\* Helpers.

Min(a, b) == IF a <= b THEN a ELSE b

IsPrefix(s, t) == Len(s) <= Len(t) /\ SubSeq(t, 1, Len(s)) = s

\* The bytes k+1 .. k+n: every byte of a run is distinct, so a dropped, repeated or
\* reordered byte shows.
Fresh(k, n) == [i \in 1..n |-> k + i]

RECURSIVE Flatten(_)
Flatten(ss) == IF ss = << >> THEN << >> ELSE Head(ss) \o Flatten(Tail(ss))

None == << >>
Some(v) == <<v>>

----------------------------------------------------------------------------
\* Channel-stream bridge: ssh/backends/sftp_channel.rs

\* The bytes that arrived on the channel, in arrival order.
Arrived == Flatten(frames)

\* poll_read as it would be if the branch that keeps the rest of a frame forgot how
\* much of it was already copied (read_pos left at 0).
poll_read_forgets_pos(rb, pos, q, tx_alive, cap, filled) ==
    IF rb # None /\ pos < Len(rb[1])
    THEN LET len == Len(rb[1])
             to_copy == Min(len - pos, cap)
             np == pos + to_copy
         IN  [kind |-> "Ready", src |-> "buffer",
              out |-> SubSeq(rb[1], pos + 1, pos + to_copy),
              read_buffer |-> IF np >= len THEN None ELSE rb,
              read_pos |-> IF np >= len THEN 0 ELSE np,
              data_q |-> q]
    ELSE IF q # << >>
    THEN LET data == Head(q)
             to_copy == Min(Len(data), cap)
         IN  [kind |-> "Ready", src |-> "queue",
              out |-> SubSeq(data, 1, to_copy),
              read_buffer |-> IF Len(data) > to_copy THEN Some(data) ELSE rb,
              read_pos |-> 0,
              data_q |-> Tail(q)]
    ELSE IF ~tx_alive
    THEN [kind |-> "Ready", src |-> "eof", out |-> << >>,
          read_buffer |-> rb, read_pos |-> pos, data_q |-> q]
    ELSE [kind |-> "Pending", src |-> "none", out |-> << >>,
          read_buffer |-> rb, read_pos |-> pos, data_q |-> q]

\* AsyncRead::poll_read on a stream whose fields are rb (read_buffer), pos (read_pos),
\* q (the inbound queue) and tx_alive (data_tx not yet dropped), called with a ReadBuf
\* of capacity cap that already holds `filled` bytes. The code sizes every copy by
\* buf.capacity(); ReadBuf::put_slice panics when the slice exceeds buf.remaining().
poll_read(rb, pos, q, tx_alive, cap, filled) ==
    IF rb # None /\ pos < Len(rb[1])
    THEN LET len == Len(rb[1])
             to_copy == Min(len - pos, cap)
             np == pos + to_copy
         IN  IF to_copy > cap - filled
             THEN [kind |-> "Panic", src |-> "buffer", out |-> << >>,
                   read_buffer |-> rb, read_pos |-> pos, data_q |-> q]
             ELSE [kind |-> "Ready", src |-> "buffer",
                   out |-> SubSeq(rb[1], pos + 1, pos + to_copy),
                   read_buffer |-> IF np >= len THEN None ELSE rb,
                   read_pos |-> IF np >= len THEN 0 ELSE np,
                   data_q |-> q]
    ELSE IF q # << >>
    THEN LET data == Head(q)
             to_copy == Min(Len(data), cap)
         IN  IF to_copy > cap - filled
             THEN [kind |-> "Panic", src |-> "queue", out |-> << >>,
                   read_buffer |-> rb, read_pos |-> pos, data_q |-> Tail(q)]
             ELSE [kind |-> "Ready", src |-> "queue",
                   out |-> SubSeq(data, 1, to_copy),
                   read_buffer |-> IF Len(data) > to_copy THEN Some(data) ELSE rb,
                   read_pos |-> IF Len(data) > to_copy THEN to_copy ELSE pos,
                   data_q |-> Tail(q)]
    ELSE IF ~tx_alive
    THEN [kind |-> "Ready", src |-> "eof", out |-> << >>,
          read_buffer |-> rb, read_pos |-> pos, data_q |-> q]
    ELSE [kind |-> "Pending", src |-> "none", out |-> << >>,
          read_buffer |-> rb, read_pos |-> pos, data_q |-> q]

\* poll_write as it would be if the buffer were queued ahead of the waiting ones.
poll_write_jumps_queue(q, rx_alive, buf) ==
    IF rx_alive
    THEN [res |-> "Ok", n |-> Len(buf), write_q |-> <<buf>> \o q]
    ELSE [res |-> "BrokenPipe", n |-> 0, write_q |-> q]

\* poll_write as it would be if the result of send were ignored.
poll_write_ignores_send_error(q, rx_alive, buf) ==
    [res |-> "Ok", n |-> Len(buf), write_q |-> IF rx_alive THEN Append(q, buf) ELSE q]

\* AsyncWrite::poll_write: sender.send(buf.to_vec()) fails exactly when write_rx is gone.
poll_write(q, rx_alive, buf) ==
    IF rx_alive
    THEN [res |-> "Ok", n |-> Len(buf), write_q |-> Append(q, buf)]
    ELSE [res |-> "BrokenPipe", n |-> 0, write_q |-> q]

inboundVars == <<chan_in, chan_closed, frames, inPump, data_q, read_buffer, read_pos,
                 delivered, lastRead, rseq>>
outboundVars == <<write_q, outPump, written, forwarded, lastWrite, wseq>>

\* The network delivers a Data frame of n bytes on the channel.
ChannelData(n) ==
    /\ ~chan_closed
    /\ Len(frames) < MaxFrames
    /\ Len(chan_in) < MaxPending
    /\ LET data == Fresh(Len(Arrived), n)
       IN  /\ chan_in' = Append(chan_in, [type |-> "Data", data |-> data])
           /\ frames' = Append(frames, data)
    /\ UNCHANGED <<chan_closed, inPump, data_q, stream, read_buffer, read_pos,
                   delivered, lastRead, rseq, outboundVars>>
    /\ UNCHANGED otherThanBridge

\* The network delivers a message that is neither Data nor Close.
ChannelOther ==
    /\ ~chan_closed
    /\ Len(chan_in) < MaxPending
    /\ chan_in' = Append(chan_in, [type |-> "Other", data |-> << >>])
    /\ UNCHANGED <<chan_closed, frames, inPump, data_q, stream, read_buffer, read_pos,
                   delivered, lastRead, rseq, outboundVars>>
    /\ UNCHANGED otherThanBridge

\* The remote side closes the channel with a Close message.
ChannelClose ==
    /\ ~chan_closed
    /\ chan_closed' = TRUE
    /\ chan_in' = Append(chan_in, [type |-> "Close", data |-> << >>])
    /\ UNCHANGED <<frames, inPump, data_q, stream, read_buffer, read_pos,
                   delivered, lastRead, rseq, outboundVars>>
    /\ UNCHANGED otherThanBridge

\* The channel ends without a Close message (read_half.wait() yields None).
ChannelEnd ==
    /\ ~chan_closed
    /\ chan_closed' = TRUE
    /\ UNCHANGED <<chan_in, frames, inPump, data_q, stream, read_buffer, read_pos,
                   delivered, lastRead, rseq, outboundVars>>
    /\ UNCHANGED otherThanBridge

\* One iteration of the inbound pump's loop.
InboundPump ==
    /\ inPump = "running"
    /\ \/ /\ chan_in # << >>
          /\ chan_in' = Tail(chan_in)
          /\ LET msg == Head(chan_in)
             IN  CASE msg.type = "Data" ->
                        IF stream = "open"
                        THEN data_q' = Append(data_q, msg.data) /\ inPump' = inPump
                        ELSE data_q' = data_q /\ inPump' = "done"
                   [] msg.type = "Close" -> data_q' = data_q /\ inPump' = "done"
                   [] OTHER -> data_q' = data_q /\ inPump' = inPump
       \/ /\ chan_in = << >>
          /\ chan_closed
          /\ inPump' = "done"
          /\ UNCHANGED <<chan_in, data_q>>
    /\ UNCHANGED <<chan_closed, frames, stream, read_buffer, read_pos, delivered,
                   lastRead, rseq, outboundVars>>
    /\ UNCHANGED otherThanBridge

\* One iteration of the outbound pump's loop; write_half.data may fail only once the
\* channel is closed.
OutboundPump ==
    /\ outPump = "running"
    /\ \/ /\ write_q # << >>
          /\ \/ /\ forwarded' = Append(forwarded, Head(write_q))
                /\ write_q' = Tail(write_q)
                /\ outPump' = outPump
             \/ /\ chan_closed
                /\ outPump' = "done"
                /\ write_q' = << >>
                /\ forwarded' = forwarded
       \/ /\ write_q = << >>
          /\ stream = "dropped"
          /\ outPump' = "done"
          /\ UNCHANGED <<write_q, forwarded>>
    /\ UNCHANGED <<inboundVars, stream, written, lastWrite, wseq>>
    /\ UNCHANGED otherThanBridge

\* The consumer polls a read with a ReadBuf of capacity cap holding `filled` bytes.
PollRead(cap, filled) ==
    /\ stream = "open"
    /\ rseq < MaxReads
    /\ LET r == poll_read(read_buffer, read_pos, data_q, inPump = "running", cap, filled)
       IN  /\ lastRead' = [kind |-> r.kind, src |-> r.src, n |-> Len(r.out)]
           /\ delivered' = delivered \o r.out
           /\ read_pos' = r.read_pos
           /\ IF r.kind = "Panic"
              THEN stream' = "dropped" /\ data_q' = << >> /\ read_buffer' = None
              ELSE stream' = stream /\ data_q' = r.data_q /\ read_buffer' = r.read_buffer
    /\ rseq' = rseq + 1
    /\ UNCHANGED <<chan_in, chan_closed, frames, inPump, outboundVars>>
    /\ UNCHANGED otherThanBridge

\* The consumer writes a buffer of n bytes.
PollWrite(n) ==
    /\ stream = "open"
    /\ wseq < MaxWrites
    /\ LET buf == Fresh(wseq * MaxWriteLen, n)
           w == poll_write(write_q, outPump = "running", buf)
       IN  /\ write_q' = w.write_q
           /\ lastWrite' = [res |-> w.res, n |-> w.n]
           /\ written' = IF w.res = "Ok" THEN Append(written, buf) ELSE written
    /\ wseq' = wseq + 1
    /\ UNCHANGED <<inboundVars, stream, outPump, forwarded>>
    /\ UNCHANGED otherThanBridge

\* The consumer drops the stream: receiver and sender go with it.
DropStream ==
    /\ stream = "open"
    /\ stream' = "dropped"
    /\ data_q' = << >>
    /\ read_buffer' = None
    /\ read_pos' = 0
    /\ UNCHANGED <<chan_in, chan_closed, frames, inPump, delivered, lastRead, rseq,
                   outboundVars>>
    /\ UNCHANGED otherThanBridge

\* SftpChannelStream::open has returned: both pumps are spawned, the queues are empty.
InitBridge ==
    /\ chan_in = << >>
    /\ chan_closed = FALSE
    /\ frames = << >>
    /\ inPump = "running"
    /\ data_q = << >>
    /\ stream = "open"
    /\ read_buffer = None
    /\ read_pos = 0
    /\ delivered = << >>
    /\ lastRead = [kind |-> "none", src |-> "none", n |-> 0]
    /\ rseq = 0
    /\ write_q = << >>
    /\ outPump = "running"
    /\ written = << >>
    /\ forwarded = << >>
    /\ lastWrite = [res |-> "none", n |-> 0]
    /\ wseq = 0

----------------------------------------------------------------------------
\* Session/connection registry: commands/session.rs, commands/terminal.rs,
\* ssh/connection.rs. SSHManager itself (ssh/manager.rs) is modelled from the
\* specification's section 4.3.

\* Two session ids, and two callers so that session_connect calls can overlap.
SessionIds == {1, 2}
Callers == {"a", "b"}
\* The session configs that session storage holds.
StoredIds == {1}
BackendKinds == {"Russh", "SystemSsh"}

\* ConnectionInstance::new with its two String arguments taken in the wrong order.
ConnectionInstanceNew_swapped(id, session_id) ==
    [id |-> session_id, session_id |-> id, status |-> "Disconnected", backend |-> "None"]

\* ConnectionInstance::new: status Disconnected, no backend.
ConnectionInstanceNew(id, session_id) ==
    [id |-> id, session_id |-> session_id, status |-> "Disconnected", backend |-> "None"]

\* A set_status that stores Connected whatever it is given.
set_status_always_connected(inst, status) == [inst EXCEPT !.status = "Connected"]

\* A set_status that does not store Failed.
set_status_drops_failed(inst, status) ==
    [inst EXCEPT !.status = IF status = "Failed" THEN @ ELSE status]

\* ConnectionInstance::set_status
set_status(inst, status) == [inst EXCEPT !.status = status]

\* create_sftp_client without its check that a backend is present.
create_sftp_client_unchecked(inst, direct) ==
    IF inst.backend # "Russh" THEN "NotSupported" ELSE direct

\* create_sftp_client answering with a session whatever the instance holds.
create_sftp_client_any_backend(inst, direct) == direct

\* ConnectionInstance::create_sftp_client: NotConnected without a backend, NotSupported
\* unless the backend downcasts to RusshBackend, else what create_sftp_client_direct
\* returns (direct).
create_sftp_client(inst, direct) ==
    IF inst.backend = "None" THEN "NotConnected"
    ELSE IF inst.backend # "Russh" THEN "NotSupported"
    ELSE direct

\* The instances the registry holds for session id sid.
Registered(sid) == {i \in connections : instances[i].session_id = sid}

\* SSHManager::get_connection(id).is_ok()
get_connection_ok(sid) == Registered(sid) # {}

\* SSHManager::get_session_config(id).is_ok()
get_session_config_ok(sid) == sid \in sessions

\* The status of a session: that of its registered instance, Disconnected without one.
SessionStatus(sid) ==
    IF \E i \in Registered(sid) : instances[i].status = "Connected" THEN "Connected"
    ELSE IF Registered(sid) = {} THEN "Disconnected"
    ELSE instances[CHOOSE i \in Registered(sid) : TRUE].status

Idle(result) == [pc |-> "idle", sid |-> 0, inst |-> 0, result |-> result]

sessionFrame == <<storage, backendLog, lastTerm, lastSftp, opSeq>>

\* session_create / session_create_with_id: the manager stores the config under the id.
SessionCreateWithId(sid) ==
    /\ sessions' = sessions \cup {sid}
    /\ sid \notin sessions
    /\ UNCHANGED <<instances, connections, callers, liveExpected, sessionFrame, otherThanSession>>

\* session_connect, first await: is the id a live connection instance?
SessionConnect(c, sid) ==
    /\ callers[c].pc = "idle"
    /\ callers' = [callers EXCEPT ![c] =
          [pc |-> IF get_connection_ok(sid) THEN "connect" ELSE "get_config",
           sid |-> sid, inst |-> 0, result |-> "none"]]
    /\ UNCHANGED <<sessions, instances, connections, liveExpected, sessionFrame, otherThanSession>>

\* session_connect, second await: is the session config in memory?
SessionConnectGetConfig(c) ==
    /\ callers[c].pc = "get_config"
    /\ callers' = [callers EXCEPT ![c].pc =
          IF get_session_config_ok(callers[c].sid) THEN "connect" ELSE "load"]
    /\ UNCHANGED <<sessions, instances, connections, liveExpected, sessionFrame, otherThanSession>>

\* load_session_from_db answering an unknown id with a config.
SessionConnectLoad_finds_unknown(c) ==
    /\ callers[c].pc = "load"
    /\ callers' = [callers EXCEPT ![c].pc = "create"]
    /\ UNCHANGED <<sessions, instances, connections, liveExpected, sessionFrame, otherThanSession>>

\* session_connect, load_session_from_db: the config, Ok(None) for an unknown id, or an
\* error of the database or of the decryption.
SessionConnectLoad(c) ==
    /\ callers[c].pc = "load"
    /\ \/ /\ callers[c].sid \in storage
          /\ callers' = [callers EXCEPT ![c].pc = "create"]
       \/ /\ callers[c].sid \notin storage
          /\ callers' = [callers EXCEPT ![c] = Idle("SessionNotFound")]
       \/ callers' = [callers EXCEPT ![c] = Idle("Storage")]
    /\ UNCHANGED <<sessions, instances, connections, liveExpected, sessionFrame, otherThanSession>>

\* A create_session_with_id that stores the loaded config under the other session id.
SessionConnectCreate_other_id(c) ==
    /\ callers[c].pc = "create"
    /\ sessions' = sessions \cup (SessionIds \ {callers[c].sid})
    /\ callers' = [callers EXCEPT ![c].pc = "connect"]
    /\ UNCHANGED <<instances, connections, liveExpected, sessionFrame, otherThanSession>>

\* session_connect, create_session_with_id for the loaded config.
SessionConnectCreate(c) ==
    /\ callers[c].pc = "create"
    /\ sessions' = sessions \cup {callers[c].sid}
    /\ callers' = [callers EXCEPT ![c].pc = "connect"]
    /\ UNCHANGED <<instances, connections, liveExpected, sessionFrame, otherThanSession>>

\* connect_session, up to the backend's connect: unknown session, no-op when already
\* Connected, else a new instance in state Connecting.
ConnectSessionBegin(c) ==
    /\ callers[c].pc = "connect"
    /\ LET sid == callers[c].sid
           id == Len(instances) + 1
       IN  IF SessionStatus(sid) = "Connected"
           THEN /\ callers' = [callers EXCEPT ![c] = Idle("Ok")]
                /\ liveExpected' = [liveExpected EXCEPT ![sid] = TRUE]
                /\ UNCHANGED instances
           ELSE IF sid \notin sessions
           THEN /\ callers' = [callers EXCEPT ![c] = Idle("SessionNotFound")]
                /\ UNCHANGED <<instances, liveExpected>>
           ELSE /\ Len(instances) < MaxConnects
                /\ instances' = Append(instances,
                                   set_status(ConnectionInstanceNew(id, sid), "Connecting"))
                /\ callers' = [callers EXCEPT ![c].pc = "connecting", ![c].inst = id]
                /\ UNCHANGED liveExpected
    /\ UNCHANGED <<sessions, connections, sessionFrame, otherThanSession>>

\* connect_session, after the backend's connect: on success the instance is stored
\* under the session id in place of any stale entry; on failure it is Failed.
ConnectSessionFinish(c, outcome) ==
    /\ callers[c].pc = "connecting"
    /\ LET sid == callers[c].sid
           i == callers[c].inst
       IN  IF outcome \in BackendKinds
           THEN /\ instances' = [instances EXCEPT ![i].status = "Connected",
                                                  ![i].backend = outcome]
                /\ connections' = (connections \ Registered(sid)) \cup {i}
                /\ liveExpected' = [liveExpected EXCEPT ![sid] = TRUE]
                /\ callers' = [callers EXCEPT ![c] = Idle("Ok")]
           ELSE /\ instances' = [instances EXCEPT ![i] = set_status(@, "Failed")]
                /\ callers' = [callers EXCEPT ![c] = Idle("ConnectionFailed")]
                /\ UNCHANGED <<connections, liveExpected>>
    /\ UNCHANGED <<sessions, sessionFrame, otherThanSession>>

\* The instances after disconnect_session(sid): the backend handle of each registered
\* instance is closed and its status is Disconnected.
Disconnected(sid) ==
    [i \in DOMAIN instances |->
        IF i \in Registered(sid)
        THEN [set_status(instances[i], "Disconnected") EXCEPT !.backend = "None"]
        ELSE instances[i]]

\* A disconnect that closes the backend but leaves the instance in the registry.
SessionDisconnect_keeps_instance(sid) ==
    /\ instances' = Disconnected(sid)
    /\ liveExpected' = [liveExpected EXCEPT ![sid] = FALSE]
    /\ UNCHANGED <<sessions, connections, callers, sessionFrame, otherThanSession>>

\* session_disconnect: succeeds also when nothing is connected.
SessionDisconnect(sid) ==
    /\ instances' = Disconnected(sid)
    /\ connections' = connections \ Registered(sid)
    /\ liveExpected' = [liveExpected EXCEPT ![sid] = FALSE]
    /\ UNCHANGED <<sessions, callers, sessionFrame, otherThanSession>>

\* A delete that removes the config and leaves the connection alone.
SessionDelete_keeps_connection(sid) ==
    /\ sid \in sessions
    /\ sessions' = sessions \ {sid}
    /\ UNCHANGED <<instances, connections, liveExpected, callers, sessionFrame,
                   otherThanSession>>

\* session_delete: disconnects if necessary, then removes the config.
SessionDelete(sid) ==
    /\ sid \in sessions
    /\ instances' = Disconnected(sid)
    /\ connections' = connections \ Registered(sid)
    /\ liveExpected' = [liveExpected EXCEPT ![sid] = FALSE]
    /\ sessions' = sessions \ {sid}
    /\ UNCHANGED <<callers, sessionFrame, otherThanSession>>

\* write_to_session / resize_session: forwarded to the backend of the session's
\* instance only if the session is Connected, NotConnected otherwise.
TerminalOp(op, sid) ==
    /\ opSeq < MaxOps
    /\ opSeq' = opSeq + 1
    /\ IF SessionStatus(sid) = "Connected"
       THEN LET i == CHOOSE i \in Registered(sid) : instances[i].status = "Connected"
            IN  /\ backendLog' = Append(backendLog, [inst |-> i, op |-> op])
                /\ lastTerm' = [seq |-> opSeq', op |-> op, sid |-> sid, res |-> "Ok"]
       ELSE /\ backendLog' = backendLog
            /\ lastTerm' = [seq |-> opSeq', op |-> op, sid |-> sid,
                            res |-> "NotConnected"]
    /\ lastSftp' = [seq |-> 0, inst |-> 0, res |-> "none"]
    /\ UNCHANGED <<sessions, storage, instances, connections, callers, liveExpected,
                   otherThanSession>>

\* ssh_write
SshWrite(sid) == TerminalOp("write", sid)

\* ssh_resize_pty
SshResizePty(sid) == TerminalOp("resize", sid)

\* create_sftp_client on an instance some component still holds (the fields of a
\* ConnectionInstance are shared by all its clones); direct is the outcome of opening
\* the SFTP channel on the backend.
CreateSftpClient(i, direct) ==
    /\ opSeq < MaxOps
    /\ opSeq' = opSeq + 1
    /\ instances[i].status \in {"Connected", "Disconnected"}
    /\ LET res == create_sftp_client(instances[i], direct)
       IN  /\ lastSftp' = [seq |-> opSeq', inst |-> i, res |-> res]
           /\ backendLog' = IF res \in {"NotConnected", "NotSupported"}
                            THEN backendLog
                            ELSE Append(backendLog, [inst |-> i, op |-> "open_sftp"])
    /\ lastTerm' = [seq |-> 0, op |-> "none", sid |-> 0, res |-> "none"]
    /\ UNCHANGED <<sessions, storage, instances, connections, callers, liveExpected,
                   otherThanSession>>

\* The manager after construction: nothing in memory, nothing connected.
InitSession ==
    /\ sessions = {}
    /\ instances = << >>
    /\ connections = {}
    /\ callers = [c \in Callers |-> Idle("none")]
    /\ liveExpected = [sid \in SessionIds |-> FALSE]
    /\ backendLog = << >>
    /\ lastTerm = [seq |-> 0, op |-> "none", sid |-> 0, res |-> "none"]
    /\ lastSftp = [seq |-> 0, inst |-> 0, res |-> "none"]
    /\ opSeq = 0
    /\ storage = StoredIds

----------------------------------------------------------------------------
\* Single-file transfers: commands/sftp.rs (sftp_upload_file, sftp_download_file,
\* sftp_cancel_upload, sftp_cancel_download) and the copy loop of sftp/client.rs.
\* SftpManager (the token registry and the task-client factory) and the cancellable
\* streaming copy are modelled from the specification's sections 4.4 and 4.5.

TaskIds == {1, 2}
TransferKinds == {"upload", "download"}

\* The copy buffer: vec![0u8; 64 * 1024].
ChunkSize == 65536

\* Sizes of the source file: whole buffers, and whole buffers plus one byte.
FileSizes == {k * ChunkSize + r : k \in 0..MaxChunks, r \in {0, 1}}

\* A copy buffer twice the size.
read_chunk_big(rem) == Min(rem, 2 * ChunkSize)

\* One full read into the copy buffer when rem bytes of the source are left.
read_chunk(rem) == Min(rem, ChunkSize)

\* What one read may return: a full buffer (or all that is left), or a short read of
\* a single byte.
ReadSizes(t) ==
    LET rem == task[t].total - transferred[t]
    IN  {read_chunk(rem)} \cup
        (IF rem > 1 /\ shortReads[t] < MaxShortReads THEN {1} ELSE {})

\* The status a command gives its record once the transfer starts.
ActiveStatus(kind) == IF kind = "upload" THEN "uploading" ELSE "downloading"

\* update_status / mark_completed: UPDATE ... WHERE task_id = ?; applied is whether a
\* pooled connection was obtained and the statement succeeded (failures are ignored).
update_status(rec, status, applied) ==
    IF applied /\ rec # "none" THEN status ELSE rec

\* The phases in which the streaming copy is running.
EnginePhases == {"open", "check", "chunk", "sync"}

\* The callbacks of task t that reported more than n bytes.
Beyond(t, n) == {i \in DOMAIN progress[t] : progress[t][i] > n}

Returned(t, res) ==
    /\ tpc' = [tpc EXCEPT ![t] = "returned"]
    /\ cmdResult' = [cmdResult EXCEPT ![t] = res]

\* The command up to its first use of the manager: the local pre-checks, then the
\* record is created as pending and moved to uploading / downloading.
StartTransfer(t, kind, total, pre, created, updated) ==
    /\ tpc[t] = "idle"
    /\ kind = "download" => pre # "NotFound"
    /\ task' = [task EXCEPT ![t] = [kind |-> kind, total |-> total]]
    /\ IF pre # "Ok"
       THEN /\ Returned(t, pre)
            /\ UNCHANGED record
       ELSE /\ tpc' = [tpc EXCEPT ![t] = "token"]
            /\ record' = [record EXCEPT ![t] =
                   update_status(IF created THEN "pending" ELSE "none",
                                 ActiveStatus(kind), updated)]
            /\ UNCHANGED cmdResult
    /\ UNCHANGED <<tokens, cancelled, taskClients, transferred, progress, shortReads,
                   cancelAt, xferResult, cancelResult, destBytes,
                   otherThanTransfer>>

\* manager.get_cancellation_token(&task_id): registers a fresh token for the task.
GetCancellationToken(t) ==
    /\ tpc[t] = "token"
    /\ tokens' = tokens \cup {t}
    /\ cancelled' = cancelled \ {t}
    /\ tpc' = [tpc EXCEPT ![t] = "client"]
    /\ UNCHANGED <<task, taskClients, record, transferred, progress, shortReads,
                   cancelAt, xferResult, cmdResult, cancelResult, destBytes,
                   otherThanTransfer>>

\* manager.create_task_client(&connection_id, &task_id).await?: on failure the command
\* returns at once.
CreateTaskClient(t, res) ==
    /\ tpc[t] = "client"
    /\ IF res = "Ok"
       THEN /\ taskClients' = taskClients \cup {t}
            /\ tpc' = [tpc EXCEPT ![t] =
                   IF task[t].kind = "upload" THEN "meta" ELSE "open"]
            /\ UNCHANGED cmdResult
       ELSE /\ Returned(t, res)
            /\ UNCHANGED taskClients
    /\ UNCHANGED <<task, tokens, cancelled, record, transferred, progress, shortReads,
                   cancelAt, xferResult, cancelResult, destBytes,
                   otherThanTransfer>>

\* sftp_upload_file reads the local file's metadata a second time, again with `?`.
UploadMetadata(t, ok) ==
    /\ tpc[t] = "meta"
    /\ IF ok
       THEN /\ tpc' = [tpc EXCEPT ![t] = "open"]
            /\ UNCHANGED cmdResult
       ELSE Returned(t, "Io")
    /\ UNCHANGED <<task, tokens, cancelled, taskClients, record, transferred, progress,
                   shortReads, cancelAt, xferResult, cancelResult, destBytes,
                   otherThanTransfer>>

\* The copy finished with res: the command goes on to its clean-up.
EngineReturns(t, res) ==
    /\ xferResult' = [xferResult EXCEPT ![t] = res]
    /\ tpc' = [tpc EXCEPT ![t] = "cleanup"]

\* The streaming copy opens the source for reading and creates the destination, which
\* empties it.
EngineOpen(t, res) ==
    /\ tpc[t] = "open"
    /\ IF res = "Ok"
       THEN /\ tpc' = [tpc EXCEPT ![t] = "check"]
            /\ destBytes' = [destBytes EXCEPT ![t] = Some(0)]
            /\ UNCHANGED xferResult
       ELSE /\ EngineReturns(t, res)
            /\ UNCHANGED destBytes
    /\ UNCHANGED <<task, tokens, cancelled, taskClients, record, transferred, progress,
                   shortReads, cancelAt, cmdResult, cancelResult,
                   otherThanTransfer>>

\* Before each chunk the copy checks the task's token; if set it returns Cancelled.
EngineCheck(t) ==
    /\ tpc[t] = "check"
    /\ IF t \in cancelled
       THEN EngineReturns(t, "Cancelled")
       ELSE /\ tpc' = [tpc EXCEPT ![t] = "chunk"]
            /\ UNCHANGED xferResult
    /\ UNCHANGED <<task, tokens, cancelled, taskClients, record, transferred, progress,
                   shortReads, cancelAt, cmdResult, cancelResult, destBytes,
                   otherThanTransfer>>

\* One turn of the copy loop: read n bytes; n = 0 ends the loop; otherwise write
\* them, add n to the count and invoke the progress callback with the new count. A
\* failed write may have written a part of the chunk.
EngineChunk(t, n, res) ==
    /\ tpc[t] = "chunk"
    /\ n \in ReadSizes(t)
    /\ IF res # "Ok"
       THEN /\ EngineReturns(t, res)
            /\ \E part \in {0, IF n > 0 THEN n - 1 ELSE 0} :
                  destBytes' = [destBytes EXCEPT ![t] = Some(@[1] + part)]
            /\ UNCHANGED <<transferred, progress, shortReads>>
       ELSE IF n = 0
       THEN /\ tpc' = [tpc EXCEPT ![t] = "sync"]
            /\ UNCHANGED <<transferred, progress, shortReads, xferResult, destBytes>>
       ELSE /\ transferred' = [transferred EXCEPT ![t] = @ + n]
            /\ destBytes' = [destBytes EXCEPT ![t] = Some(@[1] + n)]
            /\ progress' = [progress EXCEPT ![t] = Append(@, transferred[t] + n)]
            /\ shortReads' = [shortReads EXCEPT ![t] =
                   IF n < read_chunk(task[t].total - transferred[t])
                   THEN @ + 1 ELSE @]
            /\ tpc' = [tpc EXCEPT ![t] = "check"]
            /\ UNCHANGED xferResult
    /\ UNCHANGED <<task, tokens, cancelled, taskClients, record, cancelAt, cmdResult,
                   cancelResult, otherThanTransfer>>

\* After the loop the destination is synchronised; the copy returns the byte count.
EngineSync(t, res) ==
    /\ tpc[t] = "sync"
    /\ EngineReturns(t, res)
    /\ UNCHANGED <<task, tokens, cancelled, taskClients, record, transferred, progress,
                   shortReads, cancelAt, cmdResult, cancelResult, destBytes,
                   otherThanTransfer>>

\* manager.cleanup_task_client(&task_id); manager.cleanup_cancellation_token(&task_id).
CleanupTask(t) ==
    /\ tpc[t] = "cleanup"
    /\ taskClients' = taskClients \ {t}
    /\ tokens' = tokens \ {t}
    /\ cancelled' = cancelled \ {t}
    /\ tpc' = [tpc EXCEPT ![t] = "finish"]
    /\ UNCHANGED <<task, record, transferred, progress, shortReads, cancelAt,
                   xferResult, cmdResult, cancelResult, destBytes,
                   otherThanTransfer>>

\* A match result that removes the destination file when the copy did not succeed.
FinishTransfer_removes_partial(t, applied) ==
    /\ tpc[t] = "finish"
    /\ record' = [record EXCEPT ![t] =
           update_status(@, IF xferResult[t] = "Ok" THEN "completed" ELSE "failed",
                         applied)]
    /\ destBytes' = [destBytes EXCEPT ![t] = IF xferResult[t] = "Ok" THEN @ ELSE None]
    /\ Returned(t, xferResult[t])
    /\ UNCHANGED <<task, tokens, cancelled, taskClients, transferred, progress,
                   shortReads, cancelAt, xferResult, cancelResult,
                   otherThanTransfer>>

\* match result: Ok marks the record completed, Err(e) marks it failed and returns e.
FinishTransfer(t, applied) ==
    /\ tpc[t] = "finish"
    /\ record' = [record EXCEPT ![t] =
           update_status(@, IF xferResult[t] = "Ok" THEN "completed" ELSE "failed",
                         applied)]
    /\ Returned(t, xferResult[t])
    /\ UNCHANGED <<task, tokens, cancelled, taskClients, transferred, progress,
                   shortReads, cancelAt, xferResult, cancelResult, destBytes,
                   otherThanTransfer>>

\* manager.cancel_task(&task_id): sets the task's token if one is registered, and is
\* a no-op otherwise. cancelAt remembers the progress reported when the token of a
\* running copy was first set.
CancelTask(t) ==
    /\ cancelled' = IF t \in tokens THEN cancelled \cup {t} ELSE cancelled
    /\ cancelResult' = [cancelResult EXCEPT ![t] = "Ok"]
    /\ cancelAt' = [cancelAt EXCEPT ![t] =
           IF t \in tokens /\ t \notin cancelled /\ tpc[t] \in EnginePhases
           THEN Some(transferred[t]) ELSE @]
    /\ UNCHANGED <<tpc, task, tokens, taskClients, record, transferred, progress,
                   shortReads, xferResult, cmdResult, destBytes,
                   otherThanTransfer>>

\* sftp_cancel_upload / sftp_cancel_download forwarding another task's id.
SftpCancel_other_task(t) == \E u \in TaskIds \ {t} : CancelTask(u)

\* sftp_cancel_upload / sftp_cancel_download: forward the task id to cancel_task and
\* return its result.
SftpCancel(t) == CancelTask(t)

\* No command has been issued: the registries are empty.
InitTransfer ==
    /\ tpc = [t \in TaskIds |-> "idle"]
    /\ task = [t \in TaskIds |-> [kind |-> "none", total |-> 0]]
    /\ tokens = {}
    /\ cancelled = {}
    /\ taskClients = {}
    /\ record = [t \in TaskIds |-> "none"]
    /\ transferred = [t \in TaskIds |-> 0]
    /\ progress = [t \in TaskIds |-> << >>]
    /\ shortReads = [t \in TaskIds |-> 0]
    /\ cancelAt = [t \in TaskIds |-> None]
    /\ xferResult = [t \in TaskIds |-> "none"]
    /\ cmdResult = [t \in TaskIds |-> "none"]
    /\ cancelResult = [t \in TaskIds |-> "none"]
    /\ destBytes = [t \in TaskIds |-> None]

\* The commands of the tasks ts, and cancel requests for any task id.
TransferStep(ts) ==
    \/ \E t \in ts : \E kind \in TransferKinds : \E total \in FileSizes :
       \E pre \in {"Ok", "NotFound", "Io"} : \E created, updated \in BOOLEAN :
          StartTransfer(t, kind, total, pre, created, updated)
    \/ \E t \in ts : GetCancellationToken(t)
    \/ \E t \in ts : \E res \in {"Ok", "NotConnected", "Ssh"} : CreateTaskClient(t, res)
    \/ \E t \in ts : \E ok \in BOOLEAN : UploadMetadata(t, ok)
    \/ \E t \in ts : \E res \in {"Ok", "NotFound", "Io", "Ssh"} : EngineOpen(t, res)
    \/ \E t \in ts : EngineCheck(t)
    \/ \E t \in ts : \E n \in ReadSizes(t) : \E res \in {"Ok", "Io", "Ssh"} :
          EngineChunk(t, n, res)
    \/ \E t \in ts : \E res \in {"Ok", "Io", "Ssh"} : EngineSync(t, res)
    \/ \E t \in ts : CleanupTask(t)
    \/ \E t \in ts : \E applied \in BOOLEAN : FinishTransfer(t, applied)
    \/ \E t \in TaskIds : SftpCancel(t)

----------------------------------------------------------------------------
\* The locks of one connected ConnectionInstance: ssh/connection.rs (the backend
\* mutex, create_sftp_client) and commands/sftp.rs (the task client's mutex held
\* during a transfer). The shell's write / resize (SSHManager) and the cached
\* interactive SFTP session (SftpManager) are modelled from the specification's
\* sections 4.3 and 4.4.

\* The shell's write and resize, one interactive SFTP operation, one bulk transfer.
Procs == {"write", "resize", "list", "bulk"}
ShellProcs == {"write", "resize"}

\* Mutex::lock with the check that the mutex is free left out.
try_lock_unguarded(holder) == TRUE

\* tokio::sync::Mutex::lock: granted only while nobody holds the mutex.
try_lock(holder) == holder = None

\* A transfer that locks the connection's cached interactive session.
SftpLockOf_shared(p) == "shared"

\* The SFTP session a process locks: a transfer locks the client create_task_client
\* gave it, an interactive operation the connection's cached session.
SftpLockOf(p) == IF p = "bulk" THEN "task" ELSE "shared"

\* The processes that are using the backend handle.
BackendUsers == {p \in Procs : procs[p] = "in_backend"}

\* Whether p must open an SFTP session on the backend before its operation.
NeedsSession(p) == p = "bulk" \/ (p = "list" /\ ~sharedCached)

\* A command is issued: write and resize go to the backend; a transfer creates its
\* task client; an interactive operation creates the cached session on first use.
Issue(p) ==
    /\ procs[p] = "idle"
    /\ procs' = [procs EXCEPT ![p] =
           IF p \in ShellProcs \/ NeedsSession(p) THEN "want_backend" ELSE "want_client"]
    /\ UNCHANGED <<backend_guard, sftp_guard, sharedCached, bulkBlocked, served,
                   otherThanLocks>>

\* self.backend.lock().await
AcquireBackend(p) ==
    /\ procs[p] = "want_backend"
    /\ try_lock(backend_guard)
    /\ backend_guard' = Some(p)
    /\ procs' = [procs EXCEPT ![p] = "in_backend"]
    /\ UNCHANGED <<sftp_guard, sharedCached, bulkBlocked, served, otherThanLocks>>

\* The operation on the backend (write, resize, or create_sftp_client_direct) is over
\* and the guard is dropped: write and resize return, the others go on to lock their
\* SFTP session.
ReleaseBackend(p) ==
    /\ procs[p] = "in_backend"
    /\ backend_guard' = None
    /\ procs' = [procs EXCEPT ![p] = IF p \in ShellProcs THEN "idle" ELSE "want_client"]
    /\ sharedCached' = (sharedCached \/ p = "list")
    /\ served' = IF p \in ShellProcs /\ bulkBlocked THEN served \cup {p} ELSE served
    /\ UNCHANGED <<sftp_guard, bulkBlocked, otherThanLocks>>

\* sftp_client.lock().await
AcquireClient(p) ==
    /\ procs[p] = "want_client"
    /\ try_lock(sftp_guard[SftpLockOf(p)])
    /\ sftp_guard' = [sftp_guard EXCEPT ![SftpLockOf(p)] = Some(p)]
    /\ procs' = [procs EXCEPT ![p] = "in_client"]
    /\ UNCHANGED <<backend_guard, sharedCached, bulkBlocked, served, otherThanLocks>>

\* The SFTP operation or the transfer is over: the guard is dropped and the command
\* returns. A transfer whose channel is blocked never gets here.
ReleaseClient(p) ==
    /\ procs[p] = "in_client"
    /\ p = "bulk" => ~bulkBlocked
    /\ sftp_guard' = [sftp_guard EXCEPT ![SftpLockOf(p)] = None]
    /\ procs' = [procs EXCEPT ![p] = "idle"]
    /\ served' = IF p # "bulk" /\ bulkBlocked THEN served \cup {p} ELSE served
    /\ UNCHANGED <<backend_guard, sharedCached, bulkBlocked, otherThanLocks>>

\* The transfer's channel stops making progress, for good.
BulkBlocks ==
    /\ procs["bulk"] = "in_client"
    /\ ~bulkBlocked
    /\ bulkBlocked' = TRUE
    /\ UNCHANGED <<procs, backend_guard, sftp_guard, sharedCached, served,
                   otherThanLocks>>

\* A connected instance nobody is using; no interactive SFTP session cached yet.
InitLocks ==
    /\ procs = [p \in Procs |-> "idle"]
    /\ backend_guard = None
    /\ sftp_guard = [c \in {"shared", "task"} |-> None]
    /\ sharedCached = FALSE
    /\ bulkBlocked = FALSE
    /\ served = {}

----------------------------------------------------------------------------
\* Overlapping registry commands against their sequential orders. Each call on
\* SSHManager is one step, taken under the manager's lock on the registry map
\* (specification, section 4.3); session_connect (commands/session.rs) is the
\* sequence of such calls that the code makes. callLog records every command that
\* has returned, with the answers it got from storage and from the backend.

\* The registry as the commands leave it: the stored configs and, per session id,
\* the backend of its registered instance.
LiveMap ==
    [sid \in SessionIds |->
        IF Registered(sid) = {} THEN "None"
        ELSE instances[CHOOSE i \in Registered(sid) : TRUE].backend]

RegistryState == [sessions |-> sessions, live |-> LiveMap]

AllIdle == \A c \in Callers : callers[c].pc = "idle"

CallsIssued == Len(callLog) + Cardinality({c \in Callers : callers[c].pc # "idle"})

Logged(op, sid, load, backend) ==
    callLog' = Append(callLog, [op |-> op, sid |-> sid, load |-> load, backend |-> backend])

\* session_connect run on its own from registry state st, storage answering load and
\* the backend answering backend.
SeqConnect(st, sid, load, backend) ==
    IF st.live[sid] # "None" THEN st
    ELSE LET known == sid \in st.sessions
             loaded == ~known /\ load = "ok" /\ sid \in storage
             sess == IF loaded THEN st.sessions \cup {sid} ELSE st.sessions
         IN  IF ~known /\ ~loaded THEN st
             ELSE IF backend = "fail" THEN [st EXCEPT !.sessions = sess]
             ELSE [sessions |-> sess, live |-> [st.live EXCEPT ![sid] = backend]]

\* The registry states a logged call can produce when run on its own from st; an
\* answer the call never asked for in the overlapping run may be any answer.
SeqCall(st, call) ==
    IF call.op = "create" THEN {[st EXCEPT !.sessions = @ \cup {call.sid}]}
    ELSE IF call.op = "disconnect" THEN {[st EXCEPT !.live[call.sid] = "None"]}
    ELSE IF call.op = "delete"
    THEN {IF call.sid \in st.sessions
          THEN [sessions |-> st.sessions \ {call.sid},
                live |-> [st.live EXCEPT ![call.sid] = "None"]]
          ELSE st}
    ELSE LET loads == IF call.load = "unused" THEN {"ok", "Storage"} ELSE {call.load}
             answers == IF call.backend = "unused" THEN BackendKinds \cup {"fail"}
                        ELSE {call.backend}
         IN  UNION {{SeqConnect(st, call.sid, load, answer) : answer \in answers} :
                      load \in loads}

\* SeqRuns[k]: the pairs of a registry state and the set of calls run, after running
\* k of the logged calls one after the other from the empty registry, in any order.
SeqRuns[k \in 0..Len(callLog)] ==
    IF k = 0
    THEN {<<[sessions |-> {}, live |-> [sid \in SessionIds |-> "None"]], {}>>}
    ELSE UNION {UNION {{<<st2, run[2] \cup {i}>> : st2 \in SeqCall(run[1], callLog[i])} :
                         i \in DOMAIN callLog \ run[2]} :
                  run \in SeqRuns[k - 1]}

\* The registry states that the sequential orders of all logged calls produce.
SeqResults == {run[1] : run \in SeqRuns[Len(callLog)]}

\* session_create_with_id, logged.
SerialCreate(sid) ==
    /\ CallsIssued < MaxCalls
    /\ SessionCreateWithId(sid)
    /\ Logged("create", sid, "unused", "unused")
    /\ UNCHANGED consulted

\* session_connect is invoked.
SerialConnect(c, sid) ==
    /\ CallsIssued < MaxCalls
    /\ SessionConnect(c, sid)
    /\ consulted' = [consulted EXCEPT ![c] = "unused"]
    /\ UNCHANGED callLog

SerialGetConfig(c) ==
    /\ SessionConnectGetConfig(c)
    /\ UNCHANGED <<callLog, consulted>>

\* load_session_from_db: the call returns here when the id is unknown or storage fails.
SerialLoad(c) ==
    /\ SessionConnectLoad(c)
    /\ LET load == IF callers'[c].result = "Storage" THEN "Storage" ELSE "ok"
       IN  /\ consulted' = [consulted EXCEPT ![c] = load]
           /\ IF callers'[c].pc = "idle"
              THEN Logged("connect", callers[c].sid, load, "unused")
              ELSE UNCHANGED callLog

SerialConnectCreate(c) ==
    /\ SessionConnectCreate(c)
    /\ UNCHANGED <<callLog, consulted>>

\* connect_session as one step: a no-op when the session is Connected,
\* SessionNotFound without a config, else the backend connects (outcome) and on
\* success the new instance is stored under the session id.
ConnectSession(c, outcome) ==
    /\ callers[c].pc = "connect"
    /\ LET sid == callers[c].sid
           id == Len(instances) + 1
           new == set_status(ConnectionInstanceNew(id, sid), "Connecting")
       IN  IF SessionStatus(sid) = "Connected"
           THEN /\ callers' = [callers EXCEPT ![c] = Idle("Ok")]
                /\ liveExpected' = [liveExpected EXCEPT ![sid] = TRUE]
                /\ Logged("connect", sid, consulted[c], "unused")
                /\ UNCHANGED <<instances, connections>>
           ELSE IF sid \notin sessions
           THEN /\ callers' = [callers EXCEPT ![c] = Idle("SessionNotFound")]
                /\ Logged("connect", sid, consulted[c], "unused")
                /\ UNCHANGED <<instances, connections, liveExpected>>
           ELSE /\ Len(instances) < MaxConnects
                /\ Logged("connect", sid, consulted[c], outcome)
                /\ IF outcome \in BackendKinds
                   THEN /\ instances' = Append(instances,
                               [set_status(new, "Connected") EXCEPT !.backend = outcome])
                        /\ connections' = (connections \ Registered(sid)) \cup {id}
                        /\ liveExpected' = [liveExpected EXCEPT ![sid] = TRUE]
                        /\ callers' = [callers EXCEPT ![c] = Idle("Ok")]
                   ELSE /\ instances' = Append(instances, set_status(new, "Failed"))
                        /\ callers' = [callers EXCEPT ![c] = Idle("ConnectionFailed")]
                        /\ UNCHANGED <<connections, liveExpected>>
    /\ UNCHANGED <<sessions, sessionFrame, consulted, otherThanSession>>

SerialDisconnect(sid) ==
    /\ CallsIssued < MaxCalls
    /\ SessionDisconnect(sid)
    /\ Logged("disconnect", sid, "unused", "unused")
    /\ UNCHANGED consulted

SerialDelete(sid) ==
    /\ CallsIssued < MaxCalls
    /\ SessionDelete(sid)
    /\ Logged("delete", sid, "unused", "unused")
    /\ UNCHANGED consulted

InitSerial ==
    /\ callLog = << >>
    /\ consulted = [c \in Callers |-> "unused"]

----------------------------------------------------------------------------
\* Interactive SFTP operations: sftp/client.rs (the operations of SftpClient) under
\* the commands of commands/sftp.rs. The cache of interactive sessions is
\* SftpManager's (sftp/manager.rs) and is modelled from the specification's
\* section 4.4.

ConnIds == {1, 2}

InteractiveOps == {"list_dir", "create_dir", "remove_file", "remove_dir", "rename",
                   "chmod", "read_file", "write_file"}

\* The calls on the SftpSession that an operation of SftpClient makes, in order.
Primitives(op) ==
    CASE op = "list_dir"    -> <<"read_dir">>
      [] op = "create_dir"  -> <<"create_dir">>
      [] op = "remove_file" -> <<"remove_file">>
      [] op = "remove_dir"  -> <<"remove_dir">>
      [] op = "rename"      -> <<"rename">>
      [] op = "chmod"       -> <<"metadata", "set_metadata">>
      [] op = "read_file"   -> <<"read">>
      [] op = "write_file"  -> <<"write">>

\* What a call on the SftpSession may answer: success, a failure of the protocol or
\* of permissions, or a failure because the path does not exist.
PrimitiveOutcomes == {"Ok", "failure", "no_such_file"}

\* A map_err that turns the failure into success.
map_err_swallows(outcome) == "Ok"

\* .map_err(|e| SSHError::Ssh(format!(..., e)))
map_err_Ssh(outcome) == IF outcome = "Ok" THEN "Ok" ELSE "Ssh"

\* The SFTP sessions the manager has cached for connection c.
CachedFor(c) == {h \in 1..nextHandle : <<c, h>> \in sftpClients}

IdleOp == [pc |-> "idle", conn |-> 0, op |-> "none", handle |-> 0, todo |-> << >>,
           calls |-> << >>]

\* An interactive operation returns: lastOp keeps what it did and answered.
OpReturns(result, calls) ==
    /\ lastOp' = [conn |-> iop.conn, op |-> iop.op, handle |-> iop.handle,
                  calls |-> calls, result |-> result, seq |-> lastOp.seq + 1]
    /\ iop' = IdleOp

\* The connection is opened: its instance holds a backend.
InteractiveConnect(c, kind) ==
    /\ ibackend[c] = "None"
    /\ ibackend' = [ibackend EXCEPT ![c] = kind]
    /\ UNCHANGED <<sftpClients, nextHandle, iop, lastOp, otherThanInteractive>>

\* The connection is closed: the backend is gone and the cached session is torn down.
InteractiveDisconnect(c) ==
    /\ ibackend[c] # "None"
    /\ ibackend' = [ibackend EXCEPT ![c] = "None"]
    /\ sftpClients' = {e \in sftpClients : e[1] # c}
    /\ UNCHANGED <<nextHandle, iop, lastOp, otherThanInteractive>>

\* sftp_list_dir .. sftp_write_file: the command hands the operation to the manager.
InteractiveIssue(c, op) ==
    /\ iop.pc = "idle"
    /\ lastOp.seq < MaxInteractiveOps
    /\ iop' = [IdleOp EXCEPT !.pc = "session", !.conn = c, !.op = op,
                             !.todo = Primitives(op)]
    /\ UNCHANGED <<ibackend, sftpClients, nextHandle, lastOp, otherThanInteractive>>

\* The manager looks up the connection's cached session and creates it on first use
\* with ConnectionInstance::create_sftp_client.
InteractiveGetClient(direct) ==
    /\ iop.pc = "session"
    /\ LET c == iop.conn
           created == create_sftp_client([backend |-> ibackend[c]], direct)
       IN  IF CachedFor(c) # {}
           THEN /\ iop' = [iop EXCEPT !.pc = "primitive",
                                      !.handle = CHOOSE h \in CachedFor(c) : TRUE]
                /\ UNCHANGED <<sftpClients, nextHandle, lastOp>>
           ELSE IF created = "Ok"
           THEN /\ nextHandle < MaxSftpSessions
                /\ nextHandle' = nextHandle + 1
                /\ sftpClients' = sftpClients \cup {<<c, nextHandle + 1>>}
                /\ iop' = [iop EXCEPT !.pc = "primitive", !.handle = nextHandle + 1]
                /\ UNCHANGED lastOp
           ELSE /\ OpReturns(created, << >>)
                /\ UNCHANGED <<sftpClients, nextHandle>>
    /\ UNCHANGED <<ibackend, otherThanInteractive>>

\* The next call of the operation on its SftpSession: a failure is returned at once
\* as Ssh, success of the last call is the operation's success.
InteractivePrimitive(outcome) ==
    /\ iop.pc = "primitive"
    /\ LET calls == Append(iop.calls, <<Head(iop.todo), outcome>>)
       IN  IF map_err_Ssh(outcome) # "Ok"
           THEN OpReturns(map_err_Ssh(outcome), calls)
           ELSE IF Len(iop.todo) = 1
           THEN OpReturns("Ok", calls)
           ELSE /\ iop' = [iop EXCEPT !.todo = Tail(@), !.calls = calls]
                /\ UNCHANGED lastOp
    /\ UNCHANGED <<ibackend, sftpClients, nextHandle, otherThanInteractive>>

\* No connection is open, no session is cached, no operation has been issued.
InitInteractive ==
    /\ ibackend = [c \in ConnIds |-> "None"]
    /\ sftpClients = {}
    /\ nextHandle = 0
    /\ iop = IdleOp
    /\ lastOp = [conn |-> 0, op |-> "none", handle |-> 0, calls |-> << >>,
                 result |-> "none", seq |-> 0]

----------------------------------------------------------------------------
\* The single-file copy of SftpClient: upload_file and download_file of
\* sftp/client.rs.

\* The error of a failed step on the local file is Io, on the remote file Ssh.
LocalError == "Io"
RemoteError == "Ssh"

\* The error of a failed read of the source.
ReadError(kind) == IF kind = "upload" THEN LocalError ELSE RemoteError

\* The error of a failed write, flush or sync of the destination.
WriteError(kind) == IF kind = "upload" THEN RemoteError ELSE LocalError

\* transferred = n, the count started again with every chunk.
add_transferred_overwrites(count, n) == n

\* transferred += n as u64
add_transferred(count, n) == count + n

\* What one read of the source may return: a full buffer (or all that is left), or a
\* short read of a single byte.
CopyReadSizes ==
    LET rem == csource.size - ctransferred
    IN  {read_chunk(rem)} \cup
        (IF rem > 1 /\ cshort < MaxShortReads THEN {1} ELSE {})

CopyReturns(res) ==
    /\ cpc' = "returned"
    /\ cresult' = res

\* upload_file / download_file is called for a source file of size bytes.
CopyStart(kind, size) ==
    /\ cpc = "idle"
    /\ cpc' = "open"
    /\ csource' = [kind |-> kind, size |-> size]
    /\ UNCHANGED <<file_size, ctransferred, cwritten, creports, cdest, cshort, cresult,
                   otherThanCopy>>

\* The source is opened, its size is read (metadata.size.unwrap_or(0) for a remote
\* source), and the destination is created, which empties it.
CopyOpen(res, sizeKnown) ==
    /\ cpc = "open"
    /\ sizeKnown \/ csource.kind = "download"
    /\ IF res = "Ok"
       THEN /\ file_size' = IF sizeKnown THEN csource.size ELSE 0
            /\ cdest' = Some(0)
            /\ cpc' = "read"
            /\ UNCHANGED cresult
       ELSE /\ CopyReturns(res)
            /\ UNCHANGED <<file_size, cdest>>
    /\ UNCHANGED <<csource, ctransferred, cwritten, creports, cshort, otherThanCopy>>

\* One turn of the loop: read n bytes into the buffer; n = 0 leaves the loop;
\* otherwise write_all them, add n to the count and call progress_callback once.
\* A failed write_all may have written a part of the chunk.
CopyChunk(n, res, part) ==
    /\ cpc = "read"
    /\ n \in CopyReadSizes
    /\ IF res = "read_error"
       THEN /\ CopyReturns(ReadError(csource.kind))
            /\ UNCHANGED <<ctransferred, cwritten, creports, cdest, cshort>>
       ELSE IF n = 0
       THEN /\ cpc' = "flush"
            /\ UNCHANGED <<ctransferred, cwritten, creports, cdest, cshort, cresult>>
       ELSE IF res = "write_error"
       THEN /\ CopyReturns(WriteError(csource.kind))
            /\ cdest' = Some(cdest[1] + (IF part THEN n - 1 ELSE 0))
            /\ UNCHANGED <<ctransferred, cwritten, creports, cshort>>
       ELSE /\ cdest' = Some(cdest[1] + n)
            /\ cwritten' = Append(cwritten, n)
            /\ ctransferred' = add_transferred(ctransferred, n)
            /\ creports' = Append(creports, <<add_transferred(ctransferred, n), file_size>>)
            /\ cshort' = IF n < read_chunk(csource.size - ctransferred)
                         THEN cshort + 1 ELSE cshort
            /\ UNCHANGED <<cpc, cresult>>
    /\ UNCHANGED <<csource, file_size, otherThanCopy>>

\* After the loop: local_file.flush() / remote_file.sync_all(), then Ok(()).
CopyFlush(res) ==
    /\ cpc = "flush"
    /\ CopyReturns(IF res = "Ok" THEN "Ok" ELSE WriteError(csource.kind))
    /\ UNCHANGED <<csource, file_size, ctransferred, cwritten, creports, cdest, cshort,
                   otherThanCopy>>

\* No copy has been called.
InitCopy ==
    /\ cpc = "idle"
    /\ csource = [kind |-> "none", size |-> 0]
    /\ file_size = 0
    /\ ctransferred = 0
    /\ cwritten = << >>
    /\ creports = << >>
    /\ cdest = None
    /\ cshort = 0
    /\ cresult = "none"

----------------------------------------------------------------------------
\* Directory transfers: sftp_upload_directory and sftp_download_directory of
\* commands/sftp.rs. The recursive engine they call
\* (SftpClient::upload_directory_recursive / download_directory_recursive) is
\* modelled from the specification's section 4.5; the source tree is what lies
\* under the root directory, and the destination is empty below its root.

\* Sizes of the files of a source tree.
TreeFileSizes == {1, ChunkSize}

\* A node of the source tree: a directory or a file, in the directory parent (0 is
\* the root); the nodes of one directory are listed in the order of their indices.
TreeNodes == [dir : BOOLEAN, parent : 0..(MaxNodes - 1), size : {0} \cup TreeFileSizes]

WellFormedTree(tree) ==
    \A n \in DOMAIN tree :
        /\ tree[n].parent < n
        /\ tree[n].parent # 0 => tree[tree[n].parent].dir
        /\ tree[n].dir <=> tree[n].size = 0

Trees == UNION {{tree \in [1..k -> TreeNodes] : WellFormedTree(tree)} : k \in 0..MaxNodes}

\* The entries of directory p, as the listing of the source returns them.
Children(tree, p) ==
    SelectSeq([n \in 1..Len(tree) |-> n], LAMBDA n : tree[n].parent = p)

DirsOf(tree) == {n \in DOMAIN tree : tree[n].dir}
FilesOf(tree) == {n \in DOMAIN tree : ~tree[n].dir}

\* The sum of the sizes of the files among the first k nodes of the tree.
SizeUpTo(tree, files, k) ==
    LET sum[i \in 0..k] ==
            IF i = 0 THEN 0
            ELSE sum[i - 1] + (IF i \in files THEN tree[i].size ELSE 0)
    IN  sum[k]

SizeOf(tree, files) == SizeUpTo(tree, files, Len(tree))

ZeroStats == [total_files |-> 0, total_dirs |-> 0, total_size |-> 0]

NoResult == [kind |-> "none", stats |-> ZeroStats]

\* The command returns res.
DirReturned(res) ==
    /\ dpc' = "returned"
    /\ dcmdResult' = res

\* The engine returns kind with the statistics accumulated so far; the command goes
\* on to its clean-up.
DirEngineReturns(kind, st) ==
    /\ engineResult' = [kind |-> kind, stats |-> st]
    /\ dpc' = "cleanup"

\* The command up to its first use of the manager: the checks of the local path
\* (upload: it exists and is a directory; download: its parent is created), then
\* the record is created as pending and moved to uploading / downloading.
DirStart(kind, tree, pre, created, updated) ==
    /\ dpc = "idle"
    /\ kind = "download" => pre # "NotFound"
    /\ dtask' = [kind |-> kind, tree |-> tree]
    /\ IF pre # "Ok"
       THEN /\ DirReturned([kind |-> pre, stats |-> ZeroStats])
            /\ UNCHANGED drecord
       ELSE /\ dpc' = "token"
            /\ drecord' = [status |-> update_status(IF created THEN "pending" ELSE "none",
                                                    ActiveStatus(kind), updated),
                           stats |-> ZeroStats]
            /\ UNCHANGED dcmdResult
    /\ UNCHANGED <<dtoken, dclient, todo, dlog, dmade, dcopied, stats, engineResult,
                   cancelMark, otherThanDirectory>>

\* manager.get_cancellation_token(&task_id)
DirGetToken ==
    /\ dpc = "token"
    /\ dtoken' = "registered"
    /\ dpc' = "client"
    /\ UNCHANGED <<dtask, dclient, todo, dlog, dmade, dcopied, stats, engineResult,
                   dcmdResult, drecord, cancelMark, otherThanDirectory>>

\* manager.create_task_client(&connection_id, &task_id).await?
DirCreateTaskClient(res) ==
    /\ dpc = "client"
    /\ IF res = "Ok"
       THEN /\ dclient' = TRUE
            /\ dpc' = "root"
            /\ UNCHANGED dcmdResult
       ELSE /\ DirReturned([kind |-> res, stats |-> ZeroStats])
            /\ UNCHANGED dclient
    /\ UNCHANGED <<dtask, dtoken, todo, dlog, dmade, dcopied, stats, engineResult,
                   drecord, cancelMark, otherThanDirectory>>

\* The engine ensures that the destination root exists, creating it if it is
\* missing, and lists the source root.
DirRoot(missing, res) ==
    /\ dpc = "root"
    /\ dlog' = IF missing THEN Append(dlog, <<"mkdir", 0>>) ELSE dlog
    /\ IF res = "Ok"
       THEN /\ dmade' = {0}
            /\ todo' = Children(dtask.tree, 0)
            /\ dpc' = "walk"
            /\ UNCHANGED engineResult
       ELSE /\ DirEngineReturns(res, stats)
            /\ UNCHANGED <<dmade, todo>>
    /\ UNCHANGED <<dtask, dtoken, dclient, dcopied, stats, dcmdResult, drecord,
                   cancelMark, otherThanDirectory>>

\* A directory that is not counted in the statistics.
count_dir_forgets(st) == st

\* total_dirs += 1
count_dir(st) == [st EXCEPT !.total_dirs = @ + 1]

\* A file counted without its size.
count_file_without_size(st, size) == [st EXCEPT !.total_files = @ + 1]

\* total_files += 1; total_size += size
count_file(st, size) == [st EXCEPT !.total_files = @ + 1, !.total_size = @ + size]

\* A directory entered without being recorded as created.
ensure_dir_skips(made, n) == made

\* The destination directory of node n has been created.
ensure_dir(made, n) == made \cup {n}

\* A walk that goes on with the next entry after a failed copy.
after_copy_skips(res) == "walk"

\* What the walk does after a single-file copy returned res: go on, or stop.
after_copy(res) == IF res = "Ok" THEN "walk" ELSE "stop"

\* A token that is never seen as set.
is_cancelled_never(token) == FALSE

\* CancellationToken::is_cancelled
is_cancelled(token) == token = "set"

\* Pre-order: the entries of the directory just created come before what was left.
enter(rest, entries) == entries \o Tail(rest)

\* The next entry of the walk. No entry left: the engine returns Ok with the
\* statistics. The token is checked before the entry; if it is set the engine
\* returns Cancelled. A directory: it is created on the destination, counted, and
\* entered. A file: its single-file copy starts.
DirEntry(res) ==
    /\ dpc = "walk"
    /\ IF todo = << >>
       THEN /\ DirEngineReturns("Ok", stats)
            /\ UNCHANGED <<todo, dlog, dmade, stats>>
       ELSE IF is_cancelled(dtoken)
       THEN /\ DirEngineReturns("Cancelled", stats)
            /\ UNCHANGED <<todo, dlog, dmade, stats>>
       ELSE LET n == Head(todo)
            IN  IF dtask.tree[n].dir
                THEN /\ dlog' = Append(dlog, <<"mkdir", n>>)
                     /\ IF res = "Ok"
                        THEN /\ dmade' = ensure_dir(dmade, n)
                             /\ stats' = count_dir(stats)
                             /\ todo' = enter(todo, Children(dtask.tree, n))
                             /\ UNCHANGED <<dpc, engineResult>>
                        ELSE /\ DirEngineReturns(res, stats)
                             /\ UNCHANGED <<todo, dmade, stats>>
                ELSE /\ dlog' = Append(dlog, <<"copy", n>>)
                     /\ dpc' = "copying"
                     /\ UNCHANGED <<todo, dmade, stats, engineResult>>
    /\ UNCHANGED <<dtask, dtoken, dclient, dcopied, dcmdResult, drecord, cancelMark,
                   otherThanDirectory>>

\* The single-file copy of the entry returns: Ok counts the file and its size, an
\* error or Cancelled ends the walk with the statistics accumulated so far.
DirCopyEnd(res) ==
    /\ dpc = "copying"
    /\ res = "Cancelled" => is_cancelled(dtoken)
    /\ LET n == Head(todo)
       IN  IF res = "Ok"
           THEN /\ dcopied' = Append(dcopied, n)
                /\ stats' = count_file(stats, dtask.tree[n].size)
                /\ todo' = Tail(todo)
                /\ dpc' = "walk"
                /\ UNCHANGED engineResult
           ELSE IF after_copy(res) = "stop"
           THEN /\ DirEngineReturns(res, stats)
                /\ UNCHANGED <<dcopied, stats, todo>>
           ELSE /\ todo' = Tail(todo)
                /\ dpc' = "walk"
                /\ UNCHANGED <<dcopied, stats, engineResult>>
    /\ UNCHANGED <<dtask, dtoken, dclient, dlog, dmade, dcmdResult, drecord, cancelMark,
                   otherThanDirectory>>

\* manager.cleanup_task_client(&task_id); manager.cleanup_cancellation_token(&task_id).
DirCleanup ==
    /\ dpc = "cleanup"
    /\ dclient' = FALSE
    /\ dtoken' = "none"
    /\ dpc' = "finish"
    /\ UNCHANGED <<dtask, todo, dlog, dmade, dcopied, stats, engineResult, dcmdResult,
                   drecord, cancelMark, otherThanDirectory>>

\* A match result that returns the bare error.
pass_result_drops_stats(res) ==
    IF res.kind = "Ok" THEN res ELSE [kind |-> res.kind, stats |-> ZeroStats]

\* match result: Ok(r) => Ok(r), Err(e) => Err(e): what the engine returned is
\* returned unchanged.
pass_result(res) == res

\* match result: Ok marks the record completed with the statistics, Err(e) marks it
\* failed; the command returns what the engine returned.
DirFinish(applied) ==
    /\ dpc = "finish"
    /\ drecord' =
          IF engineResult.kind = "Ok"
          THEN [status |-> update_status(drecord.status, "completed", applied),
                stats |-> IF applied /\ drecord.status # "none"
                          THEN engineResult.stats ELSE drecord.stats]
          ELSE [drecord EXCEPT !.status = update_status(@, "failed", applied)]
    /\ DirReturned(pass_result(engineResult))
    /\ UNCHANGED <<dtask, dtoken, dclient, todo, dlog, dmade, dcopied, stats,
                   engineResult, cancelMark, otherThanDirectory>>

\* sftp_cancel_upload / sftp_cancel_download for the task: its registered token is
\* set. cancelMark remembers what the engine had done when the token was first set.
DirCancel ==
    /\ dtoken' = IF dtoken = "registered" THEN "set" ELSE dtoken
    /\ cancelMark' =
          IF dtoken = "registered" /\ dpc \in {"root", "walk", "copying"}
          THEN Some([log |-> Len(dlog), copied |-> Len(dcopied), made |-> dmade,
                     inflight |-> dpc = "copying"])
          ELSE cancelMark
    /\ dtoken' # dtoken
    /\ UNCHANGED <<dpc, dtask, dclient, todo, dlog, dmade, dcopied, stats, engineResult,
                   dcmdResult, drecord, otherThanDirectory>>

\* No directory command has been issued.
InitDirectory ==
    /\ dpc = "idle"
    /\ dtask = [kind |-> "none", tree |-> << >>]
    /\ dtoken = "none"
    /\ dclient = FALSE
    /\ todo = << >>
    /\ dlog = << >>
    /\ dmade = {}
    /\ dcopied = << >>
    /\ stats = ZeroStats
    /\ engineResult = NoResult
    /\ dcmdResult = NoResult
    /\ drecord = [status |-> "none", stats |-> ZeroStats]
    /\ cancelMark = None

----------------------------------------------------------------------------
\* chmod: SftpClient::chmod of sftp/client.rs reads the path's metadata, replaces
\* its permissions by the mode and writes the metadata back. The server keeps the
\* file type in the high bits of the permissions it reports and takes the low
\* twelve bits of the permissions it is sent.

\* The file type bits of a regular file (S_IFREG), as the server reports them.
FileTypeBits == 32768

\* The server's chmod takes the permission bits: mode & 0o7777.
PermissionMask == 4096

\* The modes of the calls: 0o644, 0o755, 0o4755, and 0o100600 with file type bits.
ChmodModes == {420, 493, 2541, 33152}

\* The permission bits other users of the server set.
OtherPermissions == {0, 384}

\* The sizes of the file.
RemoteSizes == {0, 1}

\* What the server answers to a stat of the path.
ServerMetadata == [permissions |-> Some(FileTypeBits + rattrs.permissions),
                   size |-> Some(rattrs.size)]

\* What the server keeps after a setstat with the attributes meta.
ServerSetMetadata(meta) ==
    [permissions |-> IF meta.permissions = None THEN rattrs.permissions
                     ELSE meta.permissions[1] % PermissionMask,
     size        |-> IF meta.size = None THEN rattrs.size ELSE meta.size[1]]

\* The metadata written back with the permissions it was read with.
with_permissions_unchanged(metadata, mode) == metadata

\* metadata.permissions = Some(mode)
with_permissions(metadata, mode) == [metadata EXCEPT !.permissions = Some(mode)]

\* chmod(path, mode) is called.
ChmodCall(mode) ==
    /\ chpc = "idle"
    /\ chseq < MaxChmods
    /\ chseq' = chseq + 1
    /\ chpc' = "metadata"
    /\ chmode' = mode
    /\ chresult' = "none"
    /\ UNCHANGED <<rattrs, chmeta, lastChmod, lastStat, otherThanSvc_chmod>>

\* self.session.metadata(path): a failure returns Ssh.
ChmodMetadata(res) ==
    /\ chpc = "metadata"
    /\ IF res = "Ok"
       THEN /\ chmeta' = with_permissions(ServerMetadata, chmode)
            /\ chpc' = "set"
            /\ UNCHANGED chresult
       ELSE /\ chresult' = map_err_Ssh(res)
            /\ chpc' = "idle"
            /\ UNCHANGED chmeta
    /\ UNCHANGED <<rattrs, chmode, lastChmod, lastStat, chseq, otherThanSvc_chmod>>

\* self.session.set_metadata(path, metadata): a failure returns Ssh and leaves the
\* path as it is.
ChmodSetMetadata(res) ==
    /\ chpc = "set"
    /\ chpc' = "idle"
    /\ IF res = "Ok"
       THEN /\ rattrs' = ServerSetMetadata(chmeta)
            /\ chresult' = "Ok"
            /\ lastChmod' = Some([mode |-> chmode, was |-> rattrs.permissions])
       ELSE /\ chresult' = map_err_Ssh(res)
            /\ UNCHANGED <<rattrs, lastChmod>>
    /\ UNCHANGED <<chmode, chmeta, lastStat, chseq, otherThanSvc_chmod>>

\* A stat of the path while no chmod is running.
ChmodStat ==
    /\ chpc = "idle"
    /\ lastStat' = [permissions |-> ServerMetadata.permissions[1], after |-> lastChmod]
    /\ lastStat' # lastStat
    /\ UNCHANGED <<rattrs, chpc, chmode, chmeta, chresult, lastChmod, chseq,
                   otherThanSvc_chmod>>

\* Another user of the server changes the path's permissions or its size.
ChmodOther(perm, size) ==
    /\ chseq < MaxChmods
    /\ chseq' = chseq + 1
    /\ rattrs' = [permissions |-> perm, size |-> size]
    /\ rattrs' # rattrs
    /\ lastChmod' = IF perm # rattrs.permissions THEN None ELSE lastChmod
    /\ UNCHANGED <<chpc, chmode, chmeta, chresult, lastStat, otherThanSvc_chmod>>

\* The path exists with the permissions 0o600; nothing was called.
InitChmod ==
    /\ rattrs = [permissions |-> 384, size |-> 0]
    /\ chpc = "idle"
    /\ chmode = 0
    /\ chmeta = [permissions |-> None, size |-> None]
    /\ chresult = "none"
    /\ lastChmod = None
    /\ lastStat = [permissions |-> 0, after |-> None]
    /\ chseq = 0

----------------------------------------------------------------------------
\* CryptoService of services/crypto_service.rs. Strings are sequences of code
\* points, byte strings are sequences of 0..255. AES-256-GCM and PBKDF2 are replaced
\* by a keyed stream with an authentication tag and by a keyed sum; Base64, JSON and
\* UTF-8 are computed.

\* The sum of a sequence of numbers, by halves.
RECURSIVE SumSeq(_)
SumSeq(seq) ==
    IF seq = << >> THEN 0
    ELSE IF Len(seq) = 1 THEN seq[1]
    ELSE LET h == Len(seq) \div 2
         IN  SumSeq(SubSeq(seq, 1, h)) + SumSeq(SubSeq(seq, h + 1, Len(seq)))

\* The concatenation of a sequence of sequences, by halves.
RECURSIVE ConcatAll(_)
ConcatAll(seqs) ==
    IF seqs = << >> THEN << >>
    ELSE IF Len(seqs) = 1 THEN seqs[1]
    ELSE LET h == Len(seqs) \div 2
         IN  ConcatAll(SubSeq(seqs, 1, h)) \o ConcatAll(SubSeq(seqs, h + 1, Len(seqs)))

\* str.as_bytes(): the UTF-8 encoding, for code points below 2048.
as_bytes(str) ==
    ConcatAll([i \in 1..Len(str) |->
                IF str[i] < 128 THEN <<str[i]>>
                ELSE <<192 + (str[i] \div 64), 128 + (str[i] % 64)>>])

\* String::from_utf8: None for bytes that are not UTF-8 of one or two bytes a
\* character.
from_utf8(bytes) ==
    LET n == Len(bytes)
        IsLead(i) == bytes[i] >= 194 /\ bytes[i] < 224
        IsCont(i) == bytes[i] >= 128 /\ bytes[i] < 192
        valid == \A i \in 1..n :
                    \/ bytes[i] < 128
                    \/ IsLead(i) /\ i < n /\ IsCont(i + 1)
                    \/ IsCont(i) /\ i > 1 /\ IsLead(i - 1)
    IN  IF ~valid THEN None
        ELSE Some(ConcatAll([i \in 1..n |->
                 IF bytes[i] < 128 THEN <<bytes[i]>>
                 ELSE IF IsLead(i) THEN <<(bytes[i] - 192) * 64 + (bytes[i + 1] - 128)>>
                 ELSE << >>]))

\* The padding character of Base64, beside the 64 digits 0..63.
Base64Pad == 64

\* general_purpose::STANDARD.encode: three bytes become four digits, the last group
\* is padded.
base64_encode(bytes) ==
    LET n == Len(bytes)
        At(i) == IF i <= n THEN bytes[i] ELSE 0
        Group(g) == At(3 * g - 2) * 65536 + At(3 * g - 1) * 256 + At(3 * g)
    IN  [j \in 1..(4 * ((n + 2) \div 3)) |->
            LET g == (j + 3) \div 4
                d == j - 4 * (g - 1)
            IN  IF d = 1 THEN Group(g) \div 262144
                ELSE IF d = 2 THEN (Group(g) \div 4096) % 64
                ELSE IF d = 3 THEN (IF 3 * g - 1 <= n THEN (Group(g) \div 64) % 64
                                    ELSE Base64Pad)
                ELSE (IF 3 * g <= n THEN Group(g) % 64 ELSE Base64Pad)]

\* general_purpose::STANDARD.decode: None for a text that is not padded Base64.
base64_decode(text) ==
    LET m == Len(text)
        pads == Cardinality({j \in 1..m : text[j] = Base64Pad})
        Digit(j) == IF text[j] = Base64Pad THEN 0 ELSE text[j]
        Group(g) == Digit(4 * g - 3) * 262144 + Digit(4 * g - 2) * 4096
                    + Digit(4 * g - 1) * 64 + Digit(4 * g)
        n == 3 * (m \div 4) - pads
        wrong == \/ m % 4 # 0
                 \/ pads > 2
                 \/ \E j \in 1..m : text[j] = Base64Pad /\ j <= m - pads
                 \/ pads = 2 /\ Group(m \div 4) % 65536 # 0
                 \/ pads = 1 /\ Group(m \div 4) % 256 # 0
    IN  IF wrong THEN None
        ELSE Some([i \in 1..n |->
                     LET g == (i + 2) \div 3
                         d == i - 3 * (g - 1)
                     IN  IF d = 1 THEN Group(g) \div 65536
                         ELSE IF d = 2 THEN (Group(g) \div 256) % 256
                         ELSE Group(g) % 256])

\* The byte lengths of the nonce, the salt and the authentication tag.
NonceLen == 12
SaltLen == 16
TagLen == 16

\* derive_key_from_password: PBKDF2 replaced by a keyed sum of password and salt.
derive_key_from_password(password, salt) ==
    (31 * SumSeq(as_bytes(password)) + 17 * SumSeq(salt) + 7 * Len(password)) % 251

\* b"ssh-terminal-device-id-salt-v1"
DeviceIdSalt ==
    <<115, 115, 104, 45, 116, 101, 114, 109, 105, 110, 97, 108, 45, 100, 101, 118,
      105, 99, 101, 45, 105, 100, 45, 115, 97, 108, 116, 45, 118, 49>>

\* derive_key_from_device_id: the fixed salt.
derive_key_from_device_id(device_id) == derive_key_from_password(device_id, DeviceIdSalt)

\* The byte of the key stream at position i.
KeyStream(key, nonce, i) == (key * 7 + nonce[((i - 1) % Len(nonce)) + 1] * 3 + i * 13) % 256

\* The authentication tag of a ciphertext.
AeadTag(key, nonce, ct) ==
    [i \in 1..TagLen |-> (key * 5 + SumSeq(nonce) + 3 * SumSeq(ct) + Len(ct) + i) % 256]

\* cipher.encrypt(nonce, plaintext): the ciphertext followed by its tag.
aead_encrypt(key, nonce, plaintext) ==
    LET ct == [i \in 1..Len(plaintext) |-> (plaintext[i] + KeyStream(key, nonce, i)) % 256]
    IN  ct \o AeadTag(key, nonce, ct)

\* cipher.decrypt(nonce, data): None when the tag does not verify.
aead_decrypt(key, nonce, data) ==
    IF Len(data) < TagLen THEN None
    ELSE LET ct == SubSeq(data, 1, Len(data) - TagLen)
             tag == SubSeq(data, Len(data) - TagLen + 1, Len(data))
         IN  IF tag # AeadTag(key, nonce, ct) THEN None
             ELSE Some([i \in 1..Len(ct) |->
                          (ct[i] + 256 - KeyStream(key, nonce, i)) % 256])

\* The characters of JSON that a string escapes.
Quote == 34
Backslash == 92

\* The two variants of AuthMethod (models/ssh_session.rs).
AuthPassword(password) == [variant |-> "Password", fields |-> <<Some(password)>>]
AuthPrivateKey(private_key_path, passphrase, key_data) ==
    [variant |-> "PrivateKey", fields |-> <<Some(private_key_path), passphrase, key_data>>]

\* The text of a JSON string's content.
RECURSIVE json_escape(_)
json_escape(str) ==
    IF str = << >> THEN << >>
    ELSE (IF Head(str) \in {Quote, Backslash} THEN <<Backslash, Head(str)>>
          ELSE <<Head(str)>>) \o json_escape(Tail(str))

\* A JSON string.
json_string(str) == <<Quote>> \o json_escape(str) \o <<Quote>>

\* null
JsonNull ==
    <<110, 117, 108, 108>>

\* An Option<String> as JSON.
json_option(opt) == IF opt = None THEN JsonNull ELSE json_string(opt[1])

\* The fixed texts of the two variants.
JsonPasswordOpen ==
    <<123, 34, 80, 97, 115, 115, 119, 111, 114, 100, 34, 58, 123, 34, 112, 97, 115,
      115, 119, 111, 114, 100, 34, 58>>
JsonPrivateKeyOpen ==
    <<123, 34, 80, 114, 105, 118, 97, 116, 101, 75, 101, 121, 34, 58, 123, 34, 112,
      114, 105, 118, 97, 116, 101, 95, 107, 101, 121, 95, 112, 97, 116, 104, 34,
      58>>
JsonPassphraseKey ==
    <<44, 34, 112, 97, 115, 115, 112, 104, 114, 97, 115, 101, 34, 58>>
JsonKeyDataKey ==
    <<44, 34, 107, 101, 121, 95, 100, 97, 116, 97, 34, 58>>
JsonClose ==
    <<125, 125>>

\* serde_json::to_string(auth_method)
to_string(auth_method) ==
    IF auth_method.variant = "Password"
    THEN JsonPasswordOpen \o json_string(auth_method.fields[1][1]) \o JsonClose
    ELSE JsonPrivateKeyOpen \o json_string(auth_method.fields[1][1])
         \o JsonPassphraseKey \o json_option(auth_method.fields[2])
         \o JsonKeyDataKey \o json_option(auth_method.fields[3]) \o JsonClose

\* The text after the literal lit, None if the text does not start with it.
Expect(text, lit) ==
    IF Len(text) >= Len(lit) /\ SubSeq(text, 1, Len(lit)) = lit
    THEN Some(SubSeq(text, Len(lit) + 1, Len(text)))
    ELSE None

\* The content of a JSON string whose opening quote has been read, and the text
\* after its closing quote.
RECURSIVE ParseChars(_)
ParseChars(text) ==
    IF text = << >> THEN None
    ELSE IF text[1] = Quote THEN Some([value |-> << >>, rest |-> Tail(text)])
    ELSE IF text[1] = Backslash
         THEN IF Len(text) < 2 \/ text[2] \notin {Quote, Backslash} THEN None
              ELSE LET r == ParseChars(SubSeq(text, 3, Len(text)))
                   IN  IF r = None THEN None
                       ELSE Some([value |-> <<text[2]>> \o r[1].value, rest |-> r[1].rest])
    ELSE LET r == ParseChars(Tail(text))
         IN  IF r = None THEN None
             ELSE Some([value |-> <<text[1]>> \o r[1].value, rest |-> r[1].rest])

\* A JSON string at the start of the text.
ParseString(text) ==
    IF text = << >> \/ text[1] # Quote THEN None ELSE ParseChars(Tail(text))

\* null or a JSON string at the start of the text.
ParseOption(text) ==
    IF Expect(text, JsonNull) # None
    THEN Some([value |-> None, rest |-> Expect(text, JsonNull)[1]])
    ELSE LET r == ParseString(text)
         IN  IF r = None THEN None
             ELSE Some([value |-> Some(r[1].value), rest |-> r[1].rest])

\* serde_json::from_slice::<AuthMethod>: None for a text that is not an AuthMethod.
from_slice(bytes) ==
    LET decoded == from_utf8(bytes)
    IN  IF decoded = None THEN None
        ELSE LET text == decoded[1]
                 p == Expect(text, JsonPasswordOpen)
                 k == Expect(text, JsonPrivateKeyOpen)
             IN  IF p # None
                 THEN LET s == ParseString(p[1])
                      IN  IF s = None \/ s[1].rest # JsonClose THEN None
                          ELSE Some(AuthPassword(s[1].value))
                 ELSE IF k = None THEN None
                 ELSE LET path == ParseString(k[1])
                          a == IF path = None THEN None
                               ELSE Expect(path[1].rest, JsonPassphraseKey)
                          pass == IF a = None THEN None ELSE ParseOption(a[1])
                          b == IF pass = None THEN None
                               ELSE Expect(pass[1].rest, JsonKeyDataKey)
                          data == IF b = None THEN None ELSE ParseOption(b[1])
                      IN  IF data = None \/ data[1].rest # JsonClose THEN None
                          ELSE Some(AuthPrivateKey(path[1].value, pass[1].value,
                                                   data[1].value))

\* What an operation of the service returns.
CryptoOk(value) == [ok |-> TRUE, value |-> value]
CryptoErr == [ok |-> FALSE, value |-> << >>]

\* encrypt_auth_method with the salt and the nonce the generator produced.
encrypt_auth_method(auth_method, user_password, salt, nonce) ==
    LET key == derive_key_from_password(user_password, salt)
        auth_json == to_string(auth_method)
        ciphertext == aead_encrypt(key, nonce, as_bytes(auth_json))
    IN  <<base64_encode(ciphertext), base64_encode(nonce), base64_encode(salt)>>

\* decrypt_auth_method
decrypt_auth_method(encrypted, nonce_b64, salt_b64, user_password) ==
    LET ciphertext == base64_decode(encrypted)
        nonce_bytes == base64_decode(nonce_b64)
        salt == base64_decode(salt_b64)
    IN  IF ciphertext = None \/ nonce_bytes = None \/ salt = None THEN CryptoErr
        ELSE IF Len(nonce_bytes[1]) # NonceLen THEN [ok |-> FALSE, value |-> "panic"]
        ELSE LET key == derive_key_from_password(user_password, salt[1])
                 plaintext == aead_decrypt(key, nonce_bytes[1], ciphertext[1])
             IN  IF plaintext = None THEN CryptoErr
                 ELSE LET auth_method == from_slice(plaintext[1])
                      IN  IF auth_method = None THEN CryptoErr
                          ELSE CryptoOk(auth_method[1])

\* The combined bytes split after the salt's length instead of the nonce's.
split_at_salt(combined) ==
    <<SubSeq(combined, 1, SaltLen), SubSeq(combined, SaltLen + 1, Len(combined))>>

\* combined.split_at(12)
split_at_nonce(combined) ==
    <<SubSeq(combined, 1, NonceLen), SubSeq(combined, NonceLen + 1, Len(combined))>>

\* encrypt_token with the nonce the generator produced.
encrypt_token(token, device_id, nonce) ==
    LET key == derive_key_from_device_id(device_id)
        ciphertext == aead_encrypt(key, nonce, as_bytes(token))
    IN  base64_encode(nonce \o ciphertext)

\* decrypt_token
decrypt_token(encrypted, device_id) ==
    LET key == derive_key_from_device_id(device_id)
        combined == base64_decode(encrypted)
    IN  IF combined = None THEN CryptoErr
        ELSE IF Len(combined[1]) < NonceLen THEN CryptoErr
        ELSE LET parts == split_at_nonce(combined[1])
                 plaintext == aead_decrypt(key, parts[1], parts[2])
             IN  IF plaintext = None THEN CryptoErr
                 ELSE LET token == from_utf8(plaintext[1])
                      IN  IF token = None THEN CryptoErr ELSE CryptoOk(token[1])

\* The strings of the inputs: empty, ASCII, with a quote and a backslash, and with
\* a character of two bytes.
CryptoStrings == {<< >>, <<97>>, <<34, 92, 97>>, <<233, 98>>}

\* The user passwords and the device ids.
CryptoSecrets == {<<112>>, <<113, 233>>}

\* The auth methods of the inputs.
AuthMethods ==
    {AuthPassword(p) : p \in CryptoStrings}
    \cup {AuthPrivateKey(path, pass, data) :
             path \in {<<97>>, <<34, 92, 97>>},
             pass \in {None} \cup {Some(s) : s \in {<< >>, <<233, 98>>}},
             data \in {None, Some(<<97>>)}}

\* The nonces and the salts the generator produces.
Nonces == {[i \in 1..NonceLen |-> 0], [i \in 1..NonceLen |-> (i * 37) % 256]}
Salts == {[i \in 1..SaltLen |-> 255], [i \in 1..SaltLen |-> (i * 11) % 256]}

\* CryptoService::encrypt_auth_method(auth_method, user_password)
CryptoEncryptAuth(auth_method, user_password, salt, nonce) ==
    /\ crin' = [kind |-> "auth", value |-> auth_method, secret |-> user_password]
    /\ crenc' = encrypt_auth_method(auth_method, user_password, salt, nonce)
    /\ crpc' = "encrypted"
    /\ UNCHANGED <<crwith, crout, otherThanSvc_crypto>>

\* CryptoService::encrypt_token(token, device_id)
CryptoEncryptToken(token, device_id, nonce) ==
    /\ crin' = [kind |-> "token", value |-> token, secret |-> device_id]
    /\ crenc' = <<encrypt_token(token, device_id, nonce)>>
    /\ crpc' = "encrypted"
    /\ UNCHANGED <<crwith, crout, otherThanSvc_crypto>>

\* CryptoService::decrypt_auth_method / decrypt_token on what the latest encryption
\* returned, with some secret.
CryptoDecrypt(secret) ==
    /\ crpc = "encrypted"
    /\ crpc' = "decrypted"
    /\ crwith' = secret
    /\ crout' = IF crin.kind = "auth"
                THEN decrypt_auth_method(crenc[1], crenc[2], crenc[3], secret)
                ELSE decrypt_token(crenc[1], secret)
    /\ UNCHANGED <<crin, crenc, otherThanSvc_crypto>>

\* Nothing has been encrypted.
InitCrypto ==
    /\ crpc = "idle"
    /\ crin = [kind |-> "none", value |-> << >>, secret |-> << >>]
    /\ crenc = << >>
    /\ crwith = << >>
    /\ crout = [ok |-> FALSE, value |-> "none"]

----------------------------------------------------------------------------
\* The 60-second mail rate limit of one user: MailRateLimit::check_rate_limit of
\* ssh-terminal-server/src/infra/mail/rate_limit.rs, called by concurrent requests
\* (MailService::send_verify_code). Redis executes each command atomically.

\* The request handlers that run concurrently for the user.
RateCallers == {"r1", "r2"}

\* The key is absent.
NoKey == [count |-> 0, ttl |-> FALSE]

\* count_str.unwrap_or_default().parse::<u64>().unwrap_or(0): an absent key reads 0.
parse_count(key) == key.count

\* if count > 0 { return Ok(false) }
is_limited(count) == count > 0

\* check_rate_limit(user_id) is called.
RateCall(p) ==
    /\ rcall[p] = "idle"
    /\ rcalls[p] < MaxRateCalls
    /\ rcalls' = [rcalls EXCEPT ![p] = @ + 1]
    /\ rcall' = [rcall EXCEPT ![p] = "get"]
    /\ rresult' = [rresult EXCEPT ![p] = "none"]
    /\ UNCHANGED <<rkey, rcount, rgrants, otherThanSvc_rate>>

\* get_key, then the check of the count: false while the count is above zero.
RateGet(p, res) ==
    /\ rcall[p] = "get"
    /\ IF res # "Ok"
       THEN /\ rcall' = [rcall EXCEPT ![p] = "idle"]
            /\ rresult' = [rresult EXCEPT ![p] = "Err"]
            /\ UNCHANGED rcount
       ELSE /\ rcount' = [rcount EXCEPT ![p] = parse_count(rkey)]
            /\ IF is_limited(parse_count(rkey))
               THEN /\ rcall' = [rcall EXCEPT ![p] = "idle"]
                    /\ rresult' = [rresult EXCEPT ![p] = "false"]
               ELSE /\ rcall' = [rcall EXCEPT ![p] = "incr"]
                    /\ UNCHANGED rresult
    /\ UNCHANGED <<rkey, rcalls, rgrants, otherThanSvc_rate>>

\* incr_key: creates the key without expiry if it is absent.
RateIncr(p, res) ==
    /\ rcall[p] = "incr"
    /\ IF res # "Ok"
       THEN /\ rcall' = [rcall EXCEPT ![p] = "idle"]
            /\ rresult' = [rresult EXCEPT ![p] = "Err"]
            /\ UNCHANGED rkey
       ELSE /\ rkey' = [rkey EXCEPT !.count = @ + 1]
            /\ rcall' = [rcall EXCEPT ![p] = "expire"]
            /\ UNCHANGED rresult
    /\ UNCHANGED <<rcount, rcalls, rgrants, otherThanSvc_rate>>

\* expire_key(&key, 60), then Ok(true). On a key that has expired meanwhile the
\* command changes nothing.
RateExpire(p, res) ==
    /\ rcall[p] = "expire"
    /\ rcall' = [rcall EXCEPT ![p] = "idle"]
    /\ IF res # "Ok"
       THEN /\ rresult' = [rresult EXCEPT ![p] = "Err"]
            /\ UNCHANGED <<rkey, rgrants>>
       ELSE /\ rkey' = IF rkey.count > 0 THEN [rkey EXCEPT !.ttl = TRUE] ELSE rkey
            /\ rresult' = [rresult EXCEPT ![p] = "true"]
            /\ rgrants' = IF rkey.count > 0 THEN rgrants + 1 ELSE rgrants
    /\ UNCHANGED <<rcount, rcalls, otherThanSvc_rate>>

\* The 60 seconds are over: Redis removes the key.
RateKeyExpires ==
    /\ rkey.ttl
    /\ rkey' = NoKey
    /\ rgrants' = 0
    /\ UNCHANGED <<rcall, rcount, rresult, rcalls, otherThanSvc_rate>>

\* No key, no call.
InitRate ==
    /\ rkey = NoKey
    /\ rcall = [p \in RateCallers |-> "idle"]
    /\ rcount = [p \in RateCallers |-> 0]
    /\ rresult = [p \in RateCallers |-> "none"]
    /\ rcalls = [p \in RateCallers |-> 0]
    /\ rgrants = 0

----------------------------------------------------------------------------
\* The current-account mark of the user_auth table: UserAuthRepository::save,
\* switch_account and clear_current of
\* src-tauri/src/database/repositories/user_auth_repository.rs, called by
\* AuthService::login / register / switch_account / logout. Every repository call
\* takes its own pooled connection and no call opens a transaction, so each
\* conn.execute is one atomic statement and statements of different callers
\* interleave.

\* The callers that run account operations concurrently (Tauri commands).
AuthCallers == {"a1", "a2"}

\* The accounts of the device.
AuthUsers == {"u1", "u2"}

\* No account of a caller's operation.
NoUser == "none"

\* UPDATE user_auth SET is_current = 0 (no WHERE): every mark is cleared.
clear_all_marks(marked) == {}

\* INSERT ... ON CONFLICT(user_id) DO UPDATE SET ..., is_current = excluded.is_current
\* with auth.is_current = true, as login and register build it: the row's mark is
\* set and no other row is touched.
upsert_current(marked, user_id) == marked \cup {user_id}

\* UPDATE user_auth SET is_current = 1 WHERE user_id = ?1: marks the row if it exists.
mark_current(marked, stored, user_id) == marked \cup ({user_id} \cap stored)

\* AuthService::login / register: repo.save(&auth) with is_current: true. With `?`
\* a failed save ends the operation.
AuthSave(p, u, res) ==
    /\ apc[p] = "idle"
    /\ acalls[p] < MaxAuthCalls
    /\ acalls' = [acalls EXCEPT ![p] = @ + 1]
    /\ IF res = "Ok"
       THEN /\ astored' = astored \cup {u}
            /\ amarked' = upsert_current(amarked, u)
            /\ apc' = [apc EXCEPT ![p] = "saved"]
            /\ ausr' = [ausr EXCEPT ![p] = u]
       ELSE UNCHANGED <<astored, amarked, apc, ausr>>
    /\ UNCHANGED otherThanSvc_auth

\* AuthService::switch_account(user_id) calls repo.switch_account(user_id).
AuthSwitchAccount(p, u) ==
    /\ apc[p] = "idle"
    /\ acalls[p] < MaxAuthCalls
    /\ acalls' = [acalls EXCEPT ![p] = @ + 1]
    /\ apc' = [apc EXCEPT ![p] = "switch"]
    /\ ausr' = [ausr EXCEPT ![p] = u]
    /\ UNCHANGED <<astored, amarked, otherThanSvc_auth>>

\* switch_account, first statement (after get_conn): all marks are cleared. A
\* failure of get_conn or of the statement returns the error.
AuthSwitchClear(p, res) ==
    /\ apc[p] \in {"saved", "switch"}
    /\ IF res = "Ok"
       THEN /\ amarked' = clear_all_marks(amarked)
            /\ apc' = [apc EXCEPT ![p] = "cleared"]
            /\ UNCHANGED ausr
       ELSE /\ apc' = [apc EXCEPT ![p] = "idle"]
            /\ ausr' = [ausr EXCEPT ![p] = NoUser]
            /\ UNCHANGED amarked
    /\ UNCHANGED <<astored, acalls, otherThanSvc_auth>>

\* switch_account, second statement: the named account is marked; Ok(()).
AuthSwitchSet(p, res) ==
    /\ apc[p] = "cleared"
    /\ amarked' = IF res = "Ok" THEN mark_current(amarked, astored, ausr[p]) ELSE amarked
    /\ apc' = [apc EXCEPT ![p] = "idle"]
    /\ ausr' = [ausr EXCEPT ![p] = NoUser]
    /\ UNCHANGED <<astored, acalls, otherThanSvc_auth>>

\* clear_current (logout): one statement clears every mark.
AuthClearCurrent(p, res) ==
    /\ apc[p] = "idle"
    /\ acalls[p] < MaxAuthCalls
    /\ acalls' = [acalls EXCEPT ![p] = @ + 1]
    /\ amarked' = IF res = "Ok" THEN clear_all_marks(amarked) ELSE amarked
    /\ UNCHANGED <<astored, apc, ausr, otherThanSvc_auth>>

\* An empty table, no operation.
InitAuth ==
    /\ astored = {}
    /\ amarked = {}
    /\ apc = [p \in AuthCallers |-> "idle"]
    /\ ausr = [p \in AuthCallers |-> NoUser]
    /\ acalls = [p \in AuthCallers |-> 0]

----------------------------------------------------------------------------
\* The mail queue and its worker pool: MailQueue of
\* ssh-terminal-server/src/infra/mail/queue.rs and start_mail_workers /
\* process_mail_task of ssh-terminal-server/src/infra/mail/worker.rs. push is LPUSH
\* and pop is BRPOP on one Redis list; each Redis command is atomic. A task has no
\* id of its own: its content (recipient and code) identifies it.

\* The workers of the pool (config.worker_pool_size).
MailWorkers == {"w1", "w2"}

\* The mails that are sent.
MailIds == {"m1", "m2"}

\* if task.retry < 3
MaxRetry == 3

\* MailTaskDto { ..., retry: 0 } as send_verify_code builds it.
NewTask(m) == [id |-> m, retry |-> 0]

\* LPUSH: the value becomes the head of the list.
lpush(list, v) == <<v>> \o list

\* BRPOP: the value at the tail of the list.
brpop_value(list) == list[Len(list)]

\* BRPOP: the list without its tail.
brpop_rest(list) == SubSeq(list, 1, Len(list) - 1)

\* A retry test that lets a task with retry = 3 be enqueued once more.
should_retry_once_more(retry) == retry <= MaxRetry

\* if task.retry < 3 { ... re-enqueue ... } else { ... dead letter ... }
should_retry(retry) == retry < MaxRetry

\* retry_task.retry += 1
retry_task(t) == [t EXCEPT !.retry = @ + 1]

\* The entries of a list that carry mail m.
EntriesOf(list, m) == {i \in 1..Len(list) : list[i].id = m}

\* MailService::send_verify_code: queue.push(&task) with retry 0.
MailPush(m) ==
    /\ m \notin mpushed
    /\ mpushed' = mpushed \cup {m}
    /\ mqueue' = lpush(mqueue, NewTask(m))
    /\ UNCHANGED <<mdead, wpc, wtask, mattempts, mfailures, mdropped, otherThanSvc_mail>>

\* The worker loop: queue.pop returned Some(task); process_mail_task starts.
WorkerPop(w) ==
    /\ wpc[w] = "pop"
    /\ mqueue # << >>
    /\ wtask' = [wtask EXCEPT ![w] = Some(brpop_value(mqueue))]
    /\ mqueue' = brpop_rest(mqueue)
    /\ wpc' = [wpc EXCEPT ![w] = "prepare"]
    /\ UNCHANGED <<mdead, mpushed, mattempts, mfailures, mdropped, otherThanSvc_mail>>

\* process_mail_task: the log query and render_mail. With `?` either error ends
\* the processing; the loop logs it and pops the next task.
WorkerPrepare(w, res) ==
    /\ wpc[w] = "prepare"
    /\ IF res = "Ok"
       THEN /\ wpc' = [wpc EXCEPT ![w] = "send"]
            /\ UNCHANGED <<wtask, mdropped>>
       ELSE /\ wpc' = [wpc EXCEPT ![w] = "pop"]
            /\ wtask' = [wtask EXCEPT ![w] = None]
            /\ mdropped' = [mdropped EXCEPT ![wtask[w][1].id] = TRUE]
    /\ UNCHANGED <<mqueue, mdead, mpushed, mattempts, mfailures, otherThanSvc_mail>>

\* mailer.send(task, ...): Ok updates the log and ends the task; Err goes to the
\* retry test.
WorkerSend(w, res) ==
    /\ wpc[w] = "send"
    /\ LET popped == wtask[w][1] IN
       /\ mattempts' = [mattempts EXCEPT ![popped.id] = @ + 1]
       /\ IF res = "Ok"
          THEN /\ wpc' = [wpc EXCEPT ![w] = "pop"]
               /\ wtask' = [wtask EXCEPT ![w] = None]
               /\ UNCHANGED mfailures
          ELSE /\ mfailures' = [mfailures EXCEPT ![popped.id] = @ + 1]
               /\ wpc' = [wpc EXCEPT ![w] =
                            IF should_retry(popped.retry) THEN "requeue" ELSE "dead_letter"]
               /\ UNCHANGED wtask
    /\ UNCHANGED <<mqueue, mdead, mpushed, mdropped, otherThanSvc_mail>>

\* After the back-off sleep: queue.push(&retry_task) with retry + 1, then the
\* log's retry count; Err(e) is returned to the loop either way.
WorkerRequeue(w, res) ==
    /\ wpc[w] = "requeue"
    /\ IF res = "Ok"
       THEN /\ mqueue' = lpush(mqueue, retry_task(wtask[w][1]))
            /\ UNCHANGED mdropped
       ELSE /\ mdropped' = [mdropped EXCEPT ![wtask[w][1].id] = TRUE]
            /\ UNCHANGED mqueue
    /\ wpc' = [wpc EXCEPT ![w] = "pop"]
    /\ wtask' = [wtask EXCEPT ![w] = None]
    /\ UNCHANGED <<mdead, mpushed, mattempts, mfailures, otherThanSvc_mail>>

\* queue.push_dead_letter(task), then the log's failed status; Err(e) is returned.
WorkerDeadLetter(w, res) ==
    /\ wpc[w] = "dead_letter"
    /\ IF res = "Ok"
       THEN /\ mdead' = lpush(mdead, wtask[w][1])
            /\ UNCHANGED mdropped
       ELSE /\ mdropped' = [mdropped EXCEPT ![wtask[w][1].id] = TRUE]
            /\ UNCHANGED mdead
    /\ wpc' = [wpc EXCEPT ![w] = "pop"]
    /\ wtask' = [wtask EXCEPT ![w] = None]
    /\ UNCHANGED <<mqueue, mpushed, mattempts, mfailures, otherThanSvc_mail>>

\* Empty lists, every worker waiting in pop.
InitMail ==
    /\ mqueue = << >>
    /\ mdead = << >>
    /\ mpushed = {}
    /\ wpc = [w \in MailWorkers |-> "pop"]
    /\ wtask = [w \in MailWorkers |-> None]
    /\ mattempts = [m \in MailIds |-> 0]
    /\ mfailures = [m \in MailIds |-> 0]
    /\ mdropped = [m \in MailIds |-> FALSE]

----------------------------------------------------------------------------
\* The authenticated GET of the API client: ApiClient::get_auth, handle_response
\* and try_refresh_token of src-tauri/src/services/api_client.rs. One ApiClient
\* (its token fields behind mutexes) is shared by concurrent callers; a call is
\* suspended at every request.send().await.

\* The concurrent callers of get_auth.
ApiCallers == {"q1", "q2"}

\* What the server answers to an authenticated request: success, HTTP 200 with
\* code 401 in the body, HTTP 401, another error status; or the send fails.
ApiResponses == {"Ok", "Body401", "Http401", "ApiError", "NetworkError"}

\* What the refresh request ends with: a new token pair, an error that
\* is_refresh_failure recognises, or any other error.
RefreshResults == {"Ok", "RefreshFailure", "OtherError"}

\* parse_success_response: code 401 gives TOKEN_NEED_REFRESH; handle_response:
\* status 401. Both start try_refresh_token.
needs_refresh(resp) == resp \in {"Body401", "Http401"}

\* A get_auth that re-sends after every successful refresh.
retry_after_every_refresh(stage) == TRUE

\* get_auth matches "Token refreshed, please retry" only on the result of the
\* first handle_response; the result of the second one is returned as it is.
retries_after_refresh(stage) == stage = 1

\* A call has returned with a result.
ApiReturn(c, result) ==
    /\ qpc' = [qpc EXCEPT ![c] = "idle"]
    /\ qresult' = [qresult EXCEPT ![c] = result]

\* get_auth: get_token (None: Err), then the request is sent with the token.
ApiGetAuth(c) ==
    /\ qpc[c] = "idle"
    /\ qcalls[c] < MaxApiCalls
    /\ qcalls' = [qcalls EXCEPT ![c] = @ + 1]
    /\ q401' = [q401 EXCEPT ![c] = 0]
    /\ qstage' = [qstage EXCEPT ![c] = 1]
    /\ IF access_token = 0
       THEN /\ ApiReturn(c, "Err")
            /\ qsent' = [qsent EXCEPT ![c] = << >>]
       ELSE /\ qsent' = [qsent EXCEPT ![c] = <<access_token>>]
            /\ qpc' = [qpc EXCEPT ![c] = "sent"]
            /\ qresult' = [qresult EXCEPT ![c] = "none"]
    /\ UNCHANGED <<access_token, refresh_token, issued, qnew, otherThanSvc_api>>

\* The answer to a send, up to the start of try_refresh_token in handle_response.
ApiResponse(c, resp) ==
    /\ qpc[c] = "sent"
    /\ IF needs_refresh(resp)
       THEN /\ q401' = [q401 EXCEPT ![c] = @ + 1]
            /\ qpc' = [qpc EXCEPT ![c] = "refresh"]
            /\ UNCHANGED qresult
       ELSE /\ ApiReturn(c, IF resp = "Ok" THEN "Ok" ELSE "Err")
            /\ UNCHANGED q401
    /\ UNCHANGED <<access_token, refresh_token, issued, qstage, qsent, qnew, qcalls,
                   otherThanSvc_api>>

\* try_refresh_token up to the answer of POST auth/refresh. Without a refresh
\* token it fails at once. A failure that is_refresh_failure recognises clears both
\* tokens; every failure ends get_auth with an error.
ApiRefreshRequest(c, res) ==
    /\ qpc[c] = "refresh"
    /\ IF ~refresh_token \/ res = "OtherError"
       THEN /\ ApiReturn(c, "Err")
            /\ UNCHANGED <<access_token, refresh_token, issued, qnew>>
       ELSE IF res = "RefreshFailure"
       THEN /\ access_token' = 0
            /\ refresh_token' = FALSE
            /\ ApiReturn(c, "Err")
            /\ UNCHANGED <<issued, qnew>>
       ELSE /\ issued' = issued + 1
            /\ qnew' = [qnew EXCEPT ![c] = issued + 1]
            /\ qpc' = [qpc EXCEPT ![c] = "store"]
            /\ UNCHANGED <<access_token, refresh_token, qresult>>
    /\ UNCHANGED <<qstage, qsent, q401, qcalls, otherThanSvc_api>>

\* try_refresh_token after the answer: the new access token is stored and the
\* callback is called; the task it spawns stores the new refresh token in the
\* client unless the callback is unset or its database update fails (cb).
\* handle_response returns the error "Token refreshed, please retry the request".
\* After the first send get_auth takes it as the signal to re-send; after the
\* re-send it is the call's result.
ApiRefreshStore(c, cb) ==
    /\ qpc[c] = "store"
    /\ access_token' = qnew[c]
    /\ refresh_token' = (refresh_token \/ cb)
    /\ IF retries_after_refresh(qstage[c])
       THEN /\ qpc' = [qpc EXCEPT ![c] = "retry"]
            /\ UNCHANGED qresult
       ELSE ApiReturn(c, "Err")
    /\ UNCHANGED <<issued, qstage, qsent, q401, qnew, qcalls, otherThanSvc_api>>

\* get_auth's retry arm: get_token again (None: Err), then the request is sent
\* once more with that token.
ApiRetry(c) ==
    /\ qpc[c] = "retry"
    /\ IF access_token = 0
       THEN /\ ApiReturn(c, "Err")
            /\ UNCHANGED <<qstage, qsent>>
       ELSE /\ qsent' = [qsent EXCEPT ![c] = Append(@, access_token)]
            /\ qstage' = [qstage EXCEPT ![c] = 2]
            /\ qpc' = [qpc EXCEPT ![c] = "sent"]
            /\ UNCHANGED qresult
    /\ UNCHANGED <<access_token, refresh_token, issued, q401, qnew, qcalls, otherThanSvc_api>>

\* A logged-in client: the first token pair is stored, no call is under way.
InitApi ==
    /\ access_token = 1
    /\ refresh_token = TRUE
    /\ issued = 1
    /\ qpc = [c \in ApiCallers |-> "idle"]
    /\ qstage = [c \in ApiCallers |-> 1]
    /\ qsent = [c \in ApiCallers |-> << >>]
    /\ q401 = [c \in ApiCallers |-> 0]
    /\ qnew = [c \in ApiCallers |-> 0]
    /\ qresult = [c \in ApiCallers |-> "none"]
    /\ qcalls = [c \in ApiCallers |-> 0]

----------------------------------------------------------------------------
\* Specifications. Every one starts from the state after construction; each explores
\* one subsystem and leaves the others where construction put them.

\* The state after construction of the bridge, the managers and the transfer registry.
Init ==
    /\ InitBridge /\ InitSession /\ InitTransfer /\ InitLocks /\ InitSerial
    /\ InitInteractive /\ InitCopy /\ InitDirectory
    /\ InitChmod
    /\ InitCrypto
    /\ InitRate
    /\ InitAuth
    /\ InitMail
    /\ InitApi

\* The registry's operations issued by the callers cs.
RegistryStep(cs) ==
    \/ \E sid \in SessionIds : SessionCreateWithId(sid)
    \/ \E c \in cs : \E sid \in SessionIds : SessionConnect(c, sid)
    \/ \E c \in cs : SessionConnectGetConfig(c)
    \/ \E c \in cs : SessionConnectLoad(c)
    \/ \E c \in cs : SessionConnectCreate(c)
    \/ \E c \in cs : ConnectSessionBegin(c)
    \/ \E c \in cs : \E outcome \in BackendKinds \cup {"fail"} :
          ConnectSessionFinish(c, outcome)
    \/ \E sid \in SessionIds : SessionDisconnect(sid)
    \/ \E sid \in SessionIds : SessionDelete(sid)

\* Connect, disconnect and delete, with overlapping session_connect calls.
NextSession == RegistryStep(Callers) /\ UNCHANGED serialVars

\* Terminal and SFTP-client operations against the registry, one session_connect call
\* at a time.
TerminalStep ==
    \/ RegistryStep({"a"})
    \/ \E sid \in SessionIds : SshWrite(sid)
    \/ \E sid \in SessionIds : SshResizePty(sid)
    \/ \E i \in DOMAIN instances : \E direct \in {"Ok", "ConnectionFailed", "Ssh"} :
          CreateSftpClient(i, direct)

NextTerminal == TerminalStep /\ UNCHANGED serialVars

SpecSession == Init /\ [][NextSession]_vars

SpecTerminal == Init /\ [][NextTerminal]_vars

NextBridge ==
    \/ \E n \in 0..MaxFrameLen : ChannelData(n)
    \/ ChannelOther
    \/ ChannelClose
    \/ ChannelEnd
    \/ InboundPump
    \/ OutboundPump
    \/ \E cap \in 1..MaxCap : \E filled \in 0..(cap - 1) : PollRead(cap, filled)
    \/ \E n \in 0..MaxWriteLen : PollWrite(n)
    \/ DropStream

SpecBridge == Init /\ [][NextBridge]_vars

\* The runtime schedules both pump tasks: a pump that can take a step takes it.
FairSpecBridge ==
    SpecBridge /\ WF_vars(InboundPump) /\ WF_vars(OutboundPump)

\* The inbound half alone: the channel, the inbound pump and the reader.
NextInbound ==
    \/ \E n \in 0..MaxFrameLen : ChannelData(n)
    \/ ChannelOther
    \/ ChannelClose
    \/ ChannelEnd
    \/ InboundPump
    \/ \E cap \in 1..MaxCap : \E filled \in 0..(cap - 1) : PollRead(cap, filled)
    \/ DropStream

SpecInbound == Init /\ [][NextInbound]_vars

FairSpecInbound == SpecInbound /\ WF_vars(InboundPump)

\* The outbound half alone: the writer, the outbound pump and the channel's closing.
NextOutbound ==
    \/ ChannelClose
    \/ ChannelEnd
    \/ OutboundPump
    \/ \E n \in 0..MaxWriteLen : PollWrite(n)
    \/ DropStream

SpecOutbound == Init /\ [][NextOutbound]_vars

\* One upload or download command, with cancel requests arriving at any moment.
NextTransfer == TransferStep({1})

SpecTransfer == Init /\ [][NextTransfer]_vars

\* The shell, an interactive SFTP operation and a transfer on one connection.
NextLocks ==
    \/ \E p \in Procs : Issue(p)
    \/ \E p \in Procs : AcquireBackend(p)
    \/ \E p \in Procs : ReleaseBackend(p)
    \/ \E p \in Procs \ ShellProcs : AcquireClient(p)
    \/ \E p \in Procs \ ShellProcs : ReleaseClient(p)
    \/ BulkBlocks

SpecLocks == Init /\ [][NextLocks]_vars

\* Overlapping session_connect calls of two callers, with create, disconnect and
\* delete calls in between.
NextSerial ==
    \/ \E sid \in SessionIds : SerialCreate(sid)
    \/ \E c \in Callers : \E sid \in SessionIds : SerialConnect(c, sid)
    \/ \E c \in Callers : SerialGetConfig(c)
    \/ \E c \in Callers : SerialLoad(c)
    \/ \E c \in Callers : SerialConnectCreate(c)
    \/ \E c \in Callers : \E outcome \in BackendKinds \cup {"fail"} :
          ConnectSession(c, outcome)
    \/ \E sid \in SessionIds : SerialDisconnect(sid)
    \/ \E sid \in SessionIds : SerialDelete(sid)

SpecSerial == Init /\ [][NextSerial]_vars

\* Interactive operations on two connections that are opened and closed.
NextInteractive ==
    \/ \E c \in ConnIds : \E kind \in BackendKinds : InteractiveConnect(c, kind)
    \/ \E c \in ConnIds : InteractiveDisconnect(c)
    \/ \E c \in ConnIds : \E op \in InteractiveOps : InteractiveIssue(c, op)
    \/ \E direct \in {"Ok", "Ssh"} : InteractiveGetClient(direct)
    \/ \E outcome \in PrimitiveOutcomes : InteractivePrimitive(outcome)

SpecInteractive == Init /\ [][NextInteractive]_vars

\* One upload_file or download_file of SftpClient.
NextCopy ==
    \/ \E kind \in TransferKinds : \E size \in FileSizes : CopyStart(kind, size)
    \/ \E res \in {"Ok", LocalError, RemoteError} : \E sizeKnown \in BOOLEAN :
          CopyOpen(res, sizeKnown)
    \/ \E n \in CopyReadSizes : \E res \in {"Ok", "read_error", "write_error"} :
       \E part \in BOOLEAN : CopyChunk(n, res, part)
    \/ \E res \in {"Ok", "error"} : CopyFlush(res)

SpecCopy == Init /\ [][NextCopy]_vars

\* One directory upload or download, with cancel requests arriving at any moment.
NextDirectory ==
    \/ /\ dpc = "idle"
       /\ \E kind \in TransferKinds : \E tree \in Trees :
          \E pre \in {"Ok", "NotFound", "Io"} : \E created, updated \in BOOLEAN :
             DirStart(kind, tree, pre, created, updated)
    \/ DirGetToken
    \/ \E res \in {"Ok", "NotConnected", "Ssh"} : DirCreateTaskClient(res)
    \/ \E missing \in BOOLEAN : \E res \in {"Ok", "Io", "Ssh"} : DirRoot(missing, res)
    \/ \E res \in {"Ok", "Io", "Ssh"} : DirEntry(res)
    \/ \E res \in {"Ok", "Io", "Ssh", "Cancelled"} : DirCopyEnd(res)
    \/ DirCleanup
    \/ \E applied \in BOOLEAN : DirFinish(applied)
    \/ DirCancel

SpecDirectory == Init /\ [][NextDirectory]_vars

\* chmod calls and stats of one path, with other users changing it in between.
NextChmod ==
    \/ \E mode \in ChmodModes : ChmodCall(mode)
    \/ \E res \in {"Ok", "failure"} : ChmodMetadata(res)
    \/ \E res \in {"Ok", "failure"} : ChmodSetMetadata(res)
    \/ ChmodStat
    \/ \E perm \in OtherPermissions : \E size \in RemoteSizes : ChmodOther(perm, size)

SpecChmod == Init /\ [][NextChmod]_vars

\* One encryption followed by a decryption of its result.
NextCrypto ==
    \/ /\ crpc = "idle"
       /\ \E a \in AuthMethods : \E p \in CryptoSecrets :
          \E salt \in Salts : \E nonce \in Nonces : CryptoEncryptAuth(a, p, salt, nonce)
    \/ /\ crpc = "idle"
       /\ \E t \in CryptoStrings : \E d \in CryptoSecrets : \E nonce \in Nonces :
             CryptoEncryptToken(t, d, nonce)
    \/ \E secret \in CryptoSecrets : CryptoDecrypt(secret)

SpecCrypto == Init /\ [][NextCrypto]_vars

\* Concurrent check_rate_limit calls for one user, and the key's expiry.
NextRate ==
    \/ \E p \in RateCallers : RateCall(p)
    \/ \E p \in RateCallers : \E res \in {"Ok", "RedisError"} : RateGet(p, res)
    \/ \E p \in RateCallers : \E res \in {"Ok", "RedisError"} : RateIncr(p, res)
    \/ \E p \in RateCallers : \E res \in {"Ok", "RedisError"} : RateExpire(p, res)
    \/ RateKeyExpires

SpecRate == Init /\ [][NextRate]_vars

\* Concurrent account operations on one device.
NextAuth ==
    \/ \E p \in AuthCallers : \E u \in AuthUsers : \E res \in {"Ok", "DbError"} : AuthSave(p, u, res)
    \/ \E p \in AuthCallers : \E u \in AuthUsers : AuthSwitchAccount(p, u)
    \/ \E p \in AuthCallers : \E res \in {"Ok", "DbError"} : AuthSwitchClear(p, res)
    \/ \E p \in AuthCallers : \E res \in {"Ok", "DbError"} : AuthSwitchSet(p, res)
    \/ \E p \in AuthCallers : \E res \in {"Ok", "DbError"} : AuthClearCurrent(p, res)

SpecAuth == Init /\ [][NextAuth]_vars

\* The producers and the worker pool.
NextMail ==
    \/ \E m \in MailIds : MailPush(m)
    \/ \E w \in MailWorkers : WorkerPop(w)
    \/ \E w \in MailWorkers : \E res \in {"Ok", "Err"} : WorkerPrepare(w, res)
    \/ \E w \in MailWorkers : \E res \in {"Ok", "Err"} : WorkerSend(w, res)
    \/ \E w \in MailWorkers : \E res \in {"Ok", "RedisError"} : WorkerRequeue(w, res)
    \/ \E w \in MailWorkers : \E res \in {"Ok", "RedisError"} : WorkerDeadLetter(w, res)

SpecMail == Init /\ [][NextMail]_vars

\* Concurrent authenticated requests on one client.
NextApi ==
    \/ \E c \in ApiCallers : ApiGetAuth(c)
    \/ \E c \in ApiCallers : \E resp \in ApiResponses : ApiResponse(c, resp)
    \/ \E c \in ApiCallers : \E res \in RefreshResults : ApiRefreshRequest(c, res)
    \/ \E c \in ApiCallers : \E cb \in BOOLEAN : ApiRefreshStore(c, cb)
    \/ \E c \in ApiCallers : ApiRetry(c)

SpecApi == Init /\ [][NextApi]_vars

\* tokio's mutexes are fair (first come, first served), and an operation on the
\* backend or on an interactive SFTP session ends; nothing is assumed of the
\* transfer's copy.
FairSpecLocks ==
    /\ SpecLocks
    /\ \A p \in Procs : SF_vars(AcquireBackend(p)) /\ WF_vars(ReleaseBackend(p))
    /\ \A p \in Procs \ {"bulk"} : SF_vars(AcquireClient(p)) /\ WF_vars(ReleaseClient(p))

----------------------------------------------------------------------------
\* Claims about the bridge.

\* C2: the bytes returned by successive reads, concatenated, are a prefix of the bytes
\* of the Data frames in arrival order: re-chunked, never dropped, repeated or reordered.
C2_ReadsArePrefixOfArrival == IsPrefix(delivered, Arrived)

\* C2's case: a frame larger than the reader's buffer was continued from read_buffer
\* and both frames have been read to their end.
C2_Witness ==
    /\ Len(frames) = MaxFrames
    /\ Len(Arrived) > MaxCap
    /\ delivered = Arrived
    /\ lastRead.kind = "Ready"
    /\ lastRead.src = "buffer"

\* Whether read_buffer still holds bytes that were not copied out.
BufferHasData == read_buffer # None /\ read_pos < Len(read_buffer[1])

\* C3: once the channel has closed, every read returns: it delivers what is queued and,
\* with the queue drained, reports end-of-stream (Ready, zero bytes); a read is Pending
\* only while the inbound pump has not yet seen the close, and the pump does see it.
C3_ClosedReadsReturnEof ==
    /\ [][(chan_closed /\ rseq' # rseq) =>
            /\ lastRead'.kind \in {"Ready", "Pending"}
            /\ (lastRead'.kind = "Pending" => inPump = "running")
            /\ (data_q # << >> /\ ~BufferHasData => lastRead'.src = "queue")
            /\ ((inPump = "done" /\ data_q = << >> /\ ~BufferHasData) =>
                    (lastRead'.kind = "Ready" /\ lastRead'.n = 0))]_vars
    /\ (chan_closed ~> inPump = "done")

\* C4: the buffers the outbound pump wrote to the channel are a prefix of the buffers
\* accepted by write: same order, each at most once.
C4_ForwardedIsPrefixOfWritten == IsPrefix(forwarded, written)

\* C4's case: several writes were accepted and all of them forwarded.
C4_Witness ==
    /\ Len(written) = MaxWrites
    /\ forwarded = written
    /\ written[1] # written[2]

\* C5: a write issued after the outbound pump has terminated fails with BrokenPipe,
\* queues nothing and is not reported as written.
C5_WriteAfterPumpEndIsBrokenPipe ==
    [][(outPump = "done" /\ wseq' # wseq) =>
          /\ lastWrite'.res = "BrokenPipe"
          /\ write_q' = write_q
          /\ written' = written]_vars

\* C5's case: the pump has terminated and a write was then refused.
C5_Witness == outPump = "done" /\ lastWrite.res = "BrokenPipe" /\ stream = "open"

\* C6: once the channel closes or the consumer drops the stream, both pump tasks
\* eventually exit.
C6_PumpsTerminate ==
    (chan_closed \/ stream = "dropped") ~> (inPump = "done" /\ outPump = "done")

----------------------------------------------------------------------------
\* Claims about the session/connection registry.

C7_OnlyConnectedIsForwarded ==
    [][opSeq' # opSeq =>
          /\ (lastTerm'.seq = opSeq' /\ SessionStatus(lastTerm'.sid) # "Connected") =>
                (lastTerm'.res = "NotConnected" /\ backendLog' = backendLog)
          /\ (lastTerm'.seq = opSeq' /\ lastTerm'.res = "Ok") =>
                /\ SessionStatus(lastTerm'.sid) = "Connected"
                /\ \E i \in Registered(lastTerm'.sid) :
                      /\ instances[i].backend # "None"
                      /\ backendLog' = Append(backendLog, [inst |-> i, op |-> lastTerm'.op])
          /\ (lastSftp'.seq = opSeq' /\ instances[lastSftp'.inst].backend = "None") =>
                (lastSftp'.res = "NotConnected" /\ backendLog' = backendLog)]_vars

\* C7's case: a write on a session that was connected and then disconnected was
\* answered NotConnected.
C7_Witness ==
    /\ lastTerm.op = "write"
    /\ lastTerm.res = "NotConnected"
    /\ \E i \in DOMAIN instances :
          /\ instances[i].session_id = lastTerm.sid
          /\ instances[i].status = "Disconnected"
          /\ instances[i].backend = "None"

----------------------------------------------------------------------------
\* Claims about single-file transfers.

\* The progress reported by task t when its token was set.
CancelPoint(t) == cancelAt[t][1]

\* Once the token of task t has been set: at most one later callback, and it reports
\* at most one chunk more than had been reported.
OneMoreChunkAtMost(t) ==
    /\ Cardinality(Beyond(t, CancelPoint(t))) <= 1
    /\ \A i \in Beyond(t, CancelPoint(t)) : progress[t][i] <= CancelPoint(t) + ChunkSize

C9_CancelledIsRecordedCancelled ==
    \A t \in TaskIds :
        (tpc[t] = "returned" /\ xferResult[t] = "Cancelled") =>
            /\ cmdResult[t] = "Cancelled"
            /\ record[t] # "failed"

\* C10: after an upload or download command has returned, on any of its return paths,
\* no cancellation token for its task id remains registered.
C10_TokenRemovedOnEveryReturn ==
    \A t \in TaskIds : tpc[t] = "returned" => t \notin tokens

\* C11: the SFTP session created for a transfer task is torn down whichever way the
\* task ends: after the transfer command has returned, on any of its return paths, no
\* task session for its task id is registered.
C11_TaskSessionTornDownOnReturn ==
    \A t \in TaskIds : tpc[t] = "returned" => t \notin taskClients

----------------------------------------------------------------------------
\* Claims about the locks of a connection.

\* C12: a transfer blocked for good on its own channel never keeps an interactive
\* SFTP operation or the shell's write / resize on the same connection from
\* completing: each such command, once issued, eventually returns.
C12_BlockedTransferStarvesNobody ==
    \A p \in Procs \ {"bulk"} : (procs[p] # "idle") ~> (procs[p] = "idle")

\* With the transfer blocked, the shell's write and resize and an interactive SFTP
\* operation have all returned.
C12_Witness ==
    /\ bulkBlocked
    /\ procs["bulk"] = "in_client"
    /\ served = Procs \ {"bulk"}

----------------------------------------------------------------------------
\* Claims about overlapping registry commands.

----------------------------------------------------------------------------
\* Claims about the status of a session's connection.

\* The steps the status may take.
StatusEdges ==
    {<<"Disconnected", "Connecting">>, <<"Connecting", "Connected">>,
     <<"Connected", "Disconnected">>, <<"Connecting", "Failed">>}

\* C15: the status of a session's connection changes only along Disconnected ->
\* Connecting -> Connected -> Disconnected and Connecting -> Failed: a new instance
\* starts Disconnected and is moved to Connecting by the connect that made it,
\* Connected is reached only from Connecting, Failed only from Connecting.
C15_StatusFollowsStateMachine ==
    [][\A i \in DOMAIN instances' :
          IF i \in DOMAIN instances
          THEN \/ instances'[i].status = instances[i].status
               \/ <<instances[i].status, instances'[i].status>> \in StatusEdges
          ELSE /\ ConnectionInstanceNew(i, instances'[i].session_id).status = "Disconnected"
               /\ instances'[i].status = "Connecting"]_vars

\* One connection went all the way round to Disconnected, another one Failed.
C15_Witness ==
    \E i, j \in DOMAIN instances :
        /\ instances[i].status = "Disconnected"
        /\ instances[j].status = "Failed"

\* The latest connection made for session sid failed to connect.
FailedLast(sid) ==
    \E i \in DOMAIN instances :
        /\ instances[i].session_id = sid
        /\ instances[i].status = "Failed"
        /\ \A j \in DOMAIN instances : j > i => instances[j].session_id # sid

\* C16: when connect fails the error is returned to the caller and the connection is
\* left Disconnected or Failed and unregistered, never Connecting or Connected; a
\* following write or resize on that session id returns NotConnected and reaches no
\* backend.
C16_FailedConnectLeavesNotConnected ==
    [][/\ \A c \in Callers :
             (callers[c].pc = "connecting" /\ callers'[c].result = "ConnectionFailed") =>
                 /\ instances'[callers[c].inst].status \in {"Disconnected", "Failed"}
                 /\ callers[c].inst \notin connections'
                 /\ callers'[c].pc = "idle"
       /\ \A sid \in SessionIds :
             FailedLast(sid) =>
                 /\ SessionStatus(sid) \in {"Disconnected", "Failed"}
                 /\ (lastTerm' # lastTerm /\ lastTerm'.sid = sid) =>
                        (lastTerm'.res = "NotConnected" /\ backendLog' = backendLog)]_vars

\* A connect failed and the write that followed on the same session was refused.
C16_Witness ==
    /\ callers["a"].result = "ConnectionFailed"
    /\ lastTerm.seq > 0
    /\ FailedLast(lastTerm.sid)
    /\ lastTerm.res = "NotConnected"

C19_ConnectLoadsFromStorage ==
    [][\A c \in Callers :
          LET sid == callers[c].sid
          IN  /\ (SessionConnectGetConfig(c) /\ sid \notin sessions) =>
                    (callers'[c].pc = "load" /\ callers'[c].sid = sid)
              /\ (SessionConnectLoad(c) /\ callers'[c].result # "Storage") =>
                    /\ callers[c].inst = 0
                    /\ sessions' = sessions
                    /\ instances' = instances
                    /\ connections' = connections
                    /\ IF sid \in storage
                       THEN callers'[c].pc = "create" /\ callers'[c].sid = sid
                       ELSE callers'[c] = Idle("SessionNotFound")
              /\ SessionConnectCreate(c) =>
                    /\ sid \in storage
                    /\ sessions' = sessions \cup {sid}
                    /\ callers'[c].pc = "connect" /\ callers'[c].sid = sid
                    /\ instances' = instances
                    /\ connections' = connections
              /\ callers'[c].pc = "connect" /\ callers[c].pc # "connect" =>
                    \/ callers'[c].sid \in sessions'
                    \/ \E i \in connections : instances[i].session_id = callers'[c].sid]_vars

\* One call has loaded a stored config that memory does not hold; another has returned
\* SessionNotFound while neither memory nor storage holds its id and nothing exists.
C19_Witness ==
    \E c, d \in Callers :
        /\ callers[c].pc = "create"
        /\ callers[c].sid \in storage \ sessions
        /\ callers[d].result = "SessionNotFound"
        /\ sessions = {}
        /\ instances = << >>
        /\ connections = {}

----------------------------------------------------------------------------
\* Claims about the interactive SFTP operations.

\* The sessions cached for connection c after the step.
CachedAfter(c) == {h \in 1..nextHandle' : <<c, h>> \in sftpClients'}

CallsFollow(op, calls) ==
    /\ Len(calls) \in 1..Len(Primitives(op))
    /\ \A k \in 1..Len(calls) :
          /\ calls[k][1] = Primitives(op)[k]
          /\ k < Len(calls) => calls[k][2] = "Ok"

----------------------------------------------------------------------------
\* Claims about the single-file copy.

\* The sum of the first k elements of s.
PrefixSum(s, k) ==
    LET sum[i \in 0..k] == IF i = 0 THEN 0 ELSE sum[i - 1] + s[i]
    IN  sum[k]

\* C28: the copy writes chunks of 1 to 64 KiB and calls the progress callback
\* exactly once after each chunk written, with the bytes transferred so far and the
\* total read when the source was opened: the k-th reported count is the sum of the
\* lengths of the first k chunks, the counts increase strictly, and at end of input
\* the last reported count is the number of bytes copied, which is the whole source.
C28_ProgressFollowsChunks ==
    /\ \A k \in DOMAIN cwritten : cwritten[k] \in 1..ChunkSize
    /\ Len(creports) = Len(cwritten)
    /\ \A k \in DOMAIN creports :
          /\ creports[k][1] = PrefixSum(cwritten, k)
          /\ creports[k][2] = file_size
          /\ k > 1 => creports[k][1] > creports[k - 1][1]
    /\ csource.kind = "upload" /\ cpc \in {"read", "flush"} => file_size = csource.size
    /\ (cpc = "flush" \/ cresult = "Ok") =>
          /\ ctransferred = csource.size
          /\ cdest = Some(csource.size)
          /\ creports # << >> => creports[Len(creports)][1] = ctransferred
          /\ creports = << >> => ctransferred = 0

\* A copy of two full buffers and one byte has returned Ok after three callbacks.
C28_Witness ==
    /\ cresult = "Ok"
    /\ cwritten = <<ChunkSize, ChunkSize, 1>>
    /\ creports[3] = <<2 * ChunkSize + 1, 2 * ChunkSize + 1>>

\* C29: once a single-file copy has returned Cancelled, the bytes it wrote stay on
\* the destination through the command's clean-up and return: the destination file
\* exists and holds every byte reported before the copy stopped.
C29_CancelledCopyKeepsPartialFile ==
    \A t \in TaskIds :
        xferResult[t] = "Cancelled" =>
            /\ destBytes[t] = Some(transferred[t])
            /\ progress[t] # << >> =>
                  destBytes[t] = Some(progress[t][Len(progress[t])])

\* A cancelled command has returned and left one buffer of a larger file behind.
C29_Witness ==
    \E t \in TaskIds :
        /\ tpc[t] = "returned"
        /\ cmdResult[t] = "Cancelled"
        /\ task[t].total > ChunkSize
        /\ destBytes[t] = Some(ChunkSize)

----------------------------------------------------------------------------
\* Claims about directory transfers.

\* The nodes of the calls of one kind in the log, in order.
LoggedCalls(kind) == SelectSeq(dlog, LAMBDA e : e[1] = kind /\ e[2] # 0)

Range(seq) == {seq[k] : k \in DOMAIN seq}

\* The statistics that count the files copied and the directories created so far.
Accumulated ==
    [total_files |-> Len(dcopied),
     total_dirs  |-> Cardinality(dmade \ {0}),
     total_size  |-> SizeOf(dtask.tree, Range(dcopied))]

C23_DownloadMirrorsEmptyDirs ==
    (dtask.kind = "download" /\ engineResult.kind = "Ok") =>
        LET tree == dtask.tree
        IN  /\ dmade = DirsOf(tree) \cup {0}
            /\ Range(dcopied) = FilesOf(tree)
            /\ engineResult.stats = Accumulated
            /\ dpc = "returned" => dcmdResult = engineResult
            /\ (/\ Len(tree) = 2
                /\ Cardinality(DirsOf(tree)) = 1
                /\ \A n \in DOMAIN tree : tree[n].parent = 0) =>
                  \E f \in FilesOf(tree) :
                      engineResult.stats = [total_files |-> 1, total_dirs |-> 1,
                                            total_size |-> tree[f].size]

\* A download of a root holding an empty subdirectory and one file of a full buffer
\* has returned Ok, and the subdirectory exists locally.
C23_Witness ==
    /\ dpc = "returned"
    /\ dtask.kind = "download"
    /\ dtask.tree = <<[dir |-> TRUE, parent |-> 0, size |-> 0],
                      [dir |-> FALSE, parent |-> 0, size |-> ChunkSize]>>
    /\ dcmdResult = [kind |-> "Ok",
                     stats |-> [total_files |-> 1, total_dirs |-> 1,
                                total_size |-> ChunkSize]]
    /\ 1 \in dmade

\* C24: a single-file copy that does not return Ok ends the walk in that step; once
\* the engine has returned, no further copy is started and no further directory is
\* created; the command returns the kind the engine returned.
C24_DirectoryTransferFailsFast ==
    [][/\ (dpc = "copying" /\ dpc' # "copying" /\ dcopied' = dcopied) =>
             (dpc' = "cleanup" /\ engineResult'.kind \in {"Io", "Ssh", "Cancelled"})
       /\ engineResult.kind # "none" =>
             (dlog' = dlog /\ dmade' = dmade /\ dcopied' = dcopied
              /\ engineResult' = engineResult)
       /\ dpc = "finish" /\ dpc' = "returned" =>
             dcmdResult'.kind = engineResult.kind]_vars

\* The command has returned the error of a copy that failed while entries of the
\* tree were still unvisited.
C24_Witness ==
    /\ dpc = "returned"
    /\ dcmdResult.kind \in {"Io", "Ssh"}
    /\ dlog # << >>
    /\ dlog[Len(dlog)][1] = "copy"
    /\ Len(todo) >= 2
    /\ Len(dlog) < Len(dtask.tree)

C26_TraversalIsPreOrder ==
    [][dlog' # dlog =>
          LET e == dlog'[Len(dlog')]
          IN  /\ dlog' = Append(dlog, e)
              /\ e[2] # 0 => dtask.tree[e[2]].parent \in dmade]_vars

\* A file inside a subdirectory of a subdirectory has been copied.
C26_Witness ==
    \E n \in Range(dcopied) :
        /\ dtask.tree[n].parent # 0
        /\ dtask.tree[dtask.tree[n].parent].parent # 0

\* C27: while the task's token is set no file copy and no subdirectory is started,
\* and a file is counted as copied only if its copy was in flight; once the token
\* is set at most that one file completes.
C27_CancelStopsTheWalk ==
    [][dtoken = "set" =>
          /\ dlog' # dlog => dpc = "root"
          /\ dmade' # dmade => dpc = "root"
          /\ dcopied' # dcopied => dpc = "copying"
          /\ dpc' = "copying" => dpc = "copying"]_vars

\* The token was set while a copy was in flight; that copy completed, the walk
\* returned Cancelled and left entries unvisited.
C27_Witness ==
    /\ cancelMark # None
    /\ cancelMark[1].inflight
    /\ Len(dcopied) = cancelMark[1].copied + 1
    /\ Len(dlog) = cancelMark[1].log
    /\ engineResult.kind = "Cancelled"
    /\ Len(todo) >= 1

----------------------------------------------------------------------------
\* Claims about chmod.

\* C31: a stat of the path that follows a chmod(path, mode) that returned Ok, with
\* no change of the permissions by anyone else in between, reports the permission
\* bits of mode: the two agree in their low twelve bits, the stat adding the file type.
C31_StatAfterChmodReportsMode ==
    lastStat.after # None =>
        /\ lastStat.permissions % PermissionMask = lastStat.after[1].mode % PermissionMask
        /\ lastStat.permissions = FileTypeBits + (lastStat.after[1].mode % PermissionMask)

\* A stat has followed a chmod to 0o644 that changed the permissions of the path.
C31_Witness ==
    /\ lastStat.after # None
    /\ lastStat.after[1].mode = 420
    /\ lastStat.after[1].was # 420
    /\ lastStat.permissions = FileTypeBits + 420

----------------------------------------------------------------------------
\* Claims about the backend variants.

----------------------------------------------------------------------------
\* Claims about the crypto service.

\* C33: decrypting what encrypt_auth_method or encrypt_token returned, with the
\* password or device id it was encrypted with, returns the value that was encrypted.
C33_DecryptInvertsEncrypt ==
    (crpc = "decrypted" /\ crwith = crin.secret) =>
        crout = CryptoOk(crin.value)

\* A private-key auth method with a quote and a backslash in its path and a
\* two-byte character in its passphrase has come back from decryption.
C33_Witness ==
    /\ crpc = "decrypted"
    /\ crin.kind = "auth"
    /\ crwith = crin.secret
    /\ crin.value = AuthPrivateKey(<<34, 92, 97>>, Some(<<233, 98>>), None)
    /\ crout = CryptoOk(crin.value)

----------------------------------------------------------------------------
\* Claims about the transfer records.

\* C34: after an upload or download command has returned, on any of its return
\* paths, the record it moved to uploading / downloading holds a terminal status.
C34_RecordEndsInTerminalStatus ==
    \A t \in TaskIds :
        tpc[t] = "returned" => record[t] \notin {"uploading", "downloading"}

----------------------------------------------------------------------------
\* Claims about end-of-stream on the bridge.

\* C35: a read that returns Ready with zero bytes found the inbound queue closed (the
\* pump has ended) and drained, with nothing left in the read buffer.
C35_ZeroBytesOnlyAtEndOfStream ==
    [][(rseq' # rseq /\ lastRead'.kind = "Ready" /\ lastRead'.n = 0) =>
          (inPump = "done" /\ data_q = << >> /\ ~BufferHasData)]_vars

----------------------------------------------------------------------------
\* Claims about the mail rate limit.

\* C36: between two moments at which the user's limit key is absent, at most one
\* check_rate_limit call returns true.
C36_OneGrantPerWindow == rgrants <= 1

----------------------------------------------------------------------------
\* Claims about the current-account mark.

\* C37: whenever no account operation is under way, at most one stored account is
\* marked current.
C37_AtMostOneCurrentAccount ==
    (\A p \in AuthCallers : apc[p] = "idle") => Cardinality(amarked) <= 1

----------------------------------------------------------------------------
\* Claims about the mail retry.

\* Mail m is held by a worker.
HeldByWorker(m) == \E w \in MailWorkers : wtask[w] # None /\ wtask[w][1].id = m

\* C39: a mail is sent at most four times; an entry of the work queue carries as
\* its retry counter the number of failed deliveries so far (one more per
\* re-enqueue, at most 3); a mail is in the dead-letter queue at most once, only
\* after four failed deliveries, and never while it is in the work queue; and once
\* the fourth failed delivery has been handled without a queue or log error the
\* mail is in the dead-letter queue.
C39_RetryThenDeadLetter ==
    \A m \in MailIds :
        /\ mattempts[m] <= MaxRetry + 1
        /\ \A i \in EntriesOf(mqueue, m) :
              mqueue[i].retry = mfailures[m] /\ mqueue[i].retry <= MaxRetry
        /\ Cardinality(EntriesOf(mdead, m)) <= 1
        /\ EntriesOf(mdead, m) # {} =>
              /\ mfailures[m] = MaxRetry + 1
              /\ EntriesOf(mqueue, m) = {}
        /\ (mfailures[m] = MaxRetry + 1 /\ ~HeldByWorker(m) /\ ~mdropped[m]) =>
              Cardinality(EntriesOf(mdead, m)) = 1

\* A mail has moved to the dead-letter queue after four failed deliveries.
C39_Witness ==
    \E m \in MailIds :
        /\ EntriesOf(mdead, m) # {}
        /\ mattempts[m] = MaxRetry + 1
        /\ ~mdropped[m]

----------------------------------------------------------------------------
\* Claims about the token refresh of the API client.

\* C40: a get_auth call sends its request at most twice; a second send happens
\* only after a 401 answer and carries a token other than the first one's; and a
\* call that received a second 401 returns an error without a further send.
C40_AtMostOneRetry ==
    \A c \in ApiCallers :
        /\ Len(qsent[c]) <= 2
        /\ Len(qsent[c]) = 2 => (q401[c] >= 1 /\ qsent[c][2] # qsent[c][1])
        /\ q401[c] <= 2
        /\ (q401[c] = 2 /\ qpc[c] = "idle") => (qresult[c] = "Err" /\ Len(qsent[c]) = 2)

\* A call was answered 401 twice, has refreshed twice and returned its error.
C40_Witness ==
    \E c \in ApiCallers :
        /\ q401[c] = 2
        /\ qpc[c] = "idle"
        /\ Len(qsent[c]) = 2
        /\ access_token > qsent[c][2]

====
